---- MODULE Spec2Model ----
(***************************************************************************)
(* HadithiAI orchestrator: the per-session orchestration subsystem.        *)
(*   - CircuitBreaker            (orchestrator/circuit_breaker.py)         *)
(*   - A2A schema validation     (core/schemas.py)                         *)
(*   - A2A dispatch with retry   (orchestrator/a2a_router.py)              *)
(*   - gateway, streaming controller and primary orchestrator              *)
(*     (gateway/websocket_handler.py, orchestrator/streaming_controller.py,*)
(*      orchestrator/primary_orchestrator.py, agent_dispatcher.py)         *)
(* Each component has its own specification over the shared variables.     *)
(***************************************************************************)
EXTENDS Integers, Sequences, FiniteSets, TLC

VARIABLES
    \* ---- circuit breaker (one CircuitBreaker object and the wall clock)
    breaker,        \* the CircuitBreaker's fields
    now,            \* time.time()
    cb_op,          \* history: the last operation applied to the breaker
    cb_ret,         \* history: what the last is_open() returned
    cb_prev,        \* history: the breaker's fields before the last operation
    cb_streak,      \* history: failures recorded since the last success
    cb_reopened,    \* history: a probe has failed since the last success
    \* ---- dispatch_with_schema_enforcement (one call)
    dispatch,
    \* ---- dispatch_streaming_with_schema (one call)
    stream,
    \* ---- create_a2a_task (one call)
    a2a_task,
    \* ---- one client connection
    conn,           \* ConnectionState: the socket, _seq_counter, what was written
    output_queue,   \* conn.output_queue
    receiver,       \* the task in _receive_loop
    sender,         \* the task in _output_sender
    orch,           \* PrimaryOrchestrator, its controller's _text_buffer,
                    \* its live session's _is_connected
    listener,       \* the task in _gemini_response_listener
    tasks,          \* the _handle_function_call tasks, by call id
    responses,      \* the calls of send_function_response
    hist,           \* history: inputs taken so far, interrupts handled
    \* ---- services of the process
    memory,         \* the session's MemoryManager and its writes to the store
    endpoint,       \* websocket_endpoint of each connection: where it stands
    active_connections, \* the connection table
    grounding,      \* _dispatch_with_grounding on one agent stream
    adapter         \* a GeminiLiveSession, its _listen task and the consumer
                    \* of receive_events()

breakerVars == <<breaker, now, cb_op, cb_ret, cb_prev, cb_streak, cb_reopened>>
a2aVars == <<dispatch, stream, a2a_task>>
sessionVars == <<conn, output_queue, receiver, sender, orch, listener, tasks,
                 responses, hist>>
serviceVars == <<memory, endpoint, active_connections, grounding, adapter>>
vars == <<breaker, now, cb_op, cb_ret, cb_prev, cb_streak, cb_reopened,
          dispatch, stream, a2a_task, conn, output_queue, receiver, sender, orch,
          listener, tasks, responses, hist, memory, endpoint,
          active_connections, grounding, adapter>>

(***************************************************************************)
(* Bounds of the model                                                     *)
(***************************************************************************)
MaxMaxFailures == 3      \* max_failures ranges over 1..MaxMaxFailures
MaxResetTimeout == 2     \* reset_timeout ranges over 1..MaxResetTimeout
MaxTime == 8             \* the clock stops ticking here
MaxFailureCount == 5     \* record_failure is not called beyond this count
MaxSuccessCount == 2     \* record_success is not called beyond this count

(***************************************************************************)
(* CircuitBreaker                                                          *)
(***************************************************************************)
\* CircuitBreaker.__init__
CircuitBreaker(max_failures, reset_timeout) ==
    [max_failures |-> max_failures,
     reset_timeout |-> reset_timeout,
     state |-> "closed",
     failure_count |-> 0,
     last_failure_time |-> 0,
     success_count |-> 0]

is_open_single_probe(b, t) ==
    IF b.state = "closed" THEN FALSE
    ELSE IF b.state = "open"
         THEN IF t - b.last_failure_time > b.reset_timeout THEN FALSE ELSE TRUE
         ELSE TRUE

\* is_open(): the value returned
is_open_result(b, t) ==
    IF b.state = "closed" THEN FALSE
    ELSE IF b.state = "open"
         THEN IF t - b.last_failure_time > b.reset_timeout THEN FALSE ELSE TRUE
         ELSE FALSE

is_open_effect_restarting(b, t) ==
    IF b.state = "open" /\ t - b.last_failure_time > b.reset_timeout
    THEN [b EXCEPT !.state = "half_open", !.last_failure_time = t]
    ELSE b

\* is_open(): the fields afterwards (the inline OPEN -> HALF_OPEN transition)
is_open_effect(b, t) ==
    IF b.state = "open" /\ t - b.last_failure_time > b.reset_timeout
    THEN [b EXCEPT !.state = "half_open"]
    ELSE b

record_failure_stuck(b, t) ==
    LET c == [b EXCEPT !.failure_count = @ + 1]
    IN  IF c.state = "half_open" THEN [c EXCEPT !.state = "open"]
        ELSE IF c.failure_count >= c.max_failures THEN [c EXCEPT !.state = "open"]
        ELSE c

record_failure_late(b, t) ==
    LET c == [b EXCEPT !.failure_count = @ + 1, !.last_failure_time = t]
    IN  IF c.state = "half_open" THEN [c EXCEPT !.state = "open"]
        ELSE IF c.failure_count > c.max_failures THEN [c EXCEPT !.state = "open"]
        ELSE c

\* record_failure()
record_failure(b, t) ==
    LET c == [b EXCEPT !.failure_count = @ + 1, !.last_failure_time = t]
    IN  IF c.state = "half_open" THEN [c EXCEPT !.state = "open"]
        ELSE IF c.failure_count >= c.max_failures THEN [c EXCEPT !.state = "open"]
        ELSE c

record_success_keep(b) ==
    IF b.state = "half_open"
    THEN [b EXCEPT !.state = "closed", !.failure_count = 0, !.success_count = @ + 1]
    ELSE [b EXCEPT !.success_count = @ + 1]

record_success_keeps_count(b) ==
    [b EXCEPT !.state = "closed", !.success_count = @ + 1]

\* record_success()
record_success(b) ==
    [b EXCEPT !.state = "closed", !.failure_count = 0, !.success_count = @ + 1]

BreakerIdle ==
    /\ breaker = CircuitBreaker(3, 60)
    /\ now = 1
    /\ cb_op = "init"
    /\ cb_ret = "none"
    /\ cb_prev = CircuitBreaker(3, 60)
    /\ cb_streak = 0
    /\ cb_reopened = FALSE

BreakerFresh ==
    /\ \E mf \in 1..MaxMaxFailures, rt \in 1..MaxResetTimeout :
          /\ breaker = CircuitBreaker(mf, rt)
          /\ cb_prev = CircuitBreaker(mf, rt)
    /\ now = 1
    /\ cb_op = "init"
    /\ cb_ret = "none"
    /\ cb_streak = 0
    /\ cb_reopened = FALSE

\* a caller queries is_open()
IsOpen ==
    /\ cb_op' = "is_open"
    /\ cb_ret' = IF is_open_result(breaker, now) THEN "true" ELSE "false"
    /\ cb_prev' = breaker
    /\ breaker' = is_open_effect(breaker, now)
    /\ UNCHANGED <<now, cb_streak, cb_reopened>>

\* a caller reports a failed call
RecordFailure ==
    /\ breaker.failure_count < MaxFailureCount
    /\ cb_op' = "record_failure"
    /\ cb_ret' = "none"
    /\ cb_prev' = breaker
    /\ breaker' = record_failure(breaker, now)
    /\ cb_streak' = cb_streak + 1
    /\ cb_reopened' = (cb_reopened \/ breaker.state = "half_open")
    /\ UNCHANGED now

\* a caller reports a successful call
RecordSuccess ==
    /\ breaker.success_count < MaxSuccessCount
    /\ cb_op' = "record_success"
    /\ cb_ret' = "none"
    /\ cb_prev' = breaker
    /\ breaker' = record_success(breaker)
    /\ cb_streak' = 0
    /\ cb_reopened' = FALSE
    /\ UNCHANGED now

\* time passes
Tick ==
    /\ now < MaxTime
    /\ now' = now + 1
    /\ cb_op' = "tick"
    /\ cb_ret' = "none"
    /\ cb_prev' = breaker
    /\ UNCHANGED <<breaker, cb_streak, cb_reopened>>

(***************************************************************************)
(* JSON values.  A value is a record [t, v]: t the JSON type, v the value. *)
(* A dict is Obj(f) with f a function from field names to values.  Numbers *)
(* are counted in tenths (0.5 is Num(5), the schema bound 1.0 is 10).      *)
(***************************************************************************)
Str(s) == [t |-> "str", v |-> s]
Num(n) == [t |-> "num", v |-> n]
Bool(b) == [t |-> "bool", v |-> b]
Arr(a) == [t |-> "arr", v |-> a]
Obj(f) == [t |-> "obj", v |-> f]
Null == [t |-> "null", v |-> "None"]

\* d[k] = x on a dict (dict(d) with one key set)
WithField(d, k, x) ==
    Obj([f \in DOMAIN d.v \cup {k} |-> IF f = k THEN x ELSE d.v[f]])

(***************************************************************************)
(* core/schemas.py: the registered schemas                                 *)
(***************************************************************************)
STORY_REQUEST_SCHEMA ==
    [type |-> "object",
     required |-> {"culture", "theme"},
     properties |->
        [culture |-> [type |-> "string"],
         theme |-> [type |-> "string",
                    enum |-> {Str("trickster"), Str("creation"), Str("wisdom"),
                              Str("courage"), Str("love"), Str("origin"),
                              Str("moral")}],
         complexity |-> [type |-> "string",
                         enum |-> {Str("child"), Str("teen"), Str("adult")}],
         continuation |-> [type |-> "boolean"],
         session_context |-> [type |-> "string"]],
     additionalProperties |-> FALSE]

STORY_CHUNK_SCHEMA ==
    [type |-> "object",
     required |-> {"text", "culture"},
     properties |->
        [text |-> [type |-> "string", minLength |-> 1],
         culture |-> [type |-> "string"],
         cultural_claims |->
            [type |-> "array",
             items |-> [type |-> "object",
                        properties |->
                           [claim |-> [type |-> "string"],
                            category |->
                               [type |-> "string",
                                enum |-> {Str("proverb"), Str("custom"),
                                          Str("character"), Str("location"),
                                          Str("language"), Str("historical")}]],
                        required |-> {"claim", "category"}]],
         scene_description |-> [type |-> "string"],
         is_final |-> [type |-> "boolean"]],
     additionalProperties |-> FALSE]

VALIDATED_CHUNK_SCHEMA ==
    [type |-> "object",
     required |-> {"text", "confidence"},
     properties |->
        [text |-> [type |-> "string"],
         confidence |-> [type |-> "number", minimum |-> 0, maximum |-> 10],
         corrections |-> [type |-> "array", items |-> [type |-> "string"]],
         rejected_claims |-> [type |-> "array", items |-> [type |-> "string"]],
         is_final |-> [type |-> "boolean"]],
     additionalProperties |-> FALSE]

RIDDLE_REQUEST_SCHEMA ==
    [type |-> "object",
     required |-> {"culture"},
     properties |->
        [culture |-> [type |-> "string"],
         difficulty |-> [type |-> "string",
                         enum |-> {Str("easy"), Str("medium"), Str("hard")}],
         session_context |-> [type |-> "string"]],
     additionalProperties |-> FALSE]

RIDDLE_PAYLOAD_SCHEMA ==
    [type |-> "object",
     required |-> {"opening", "riddle_text", "answer", "culture"},
     properties |->
        [opening |-> [type |-> "string"],
         riddle_text |-> [type |-> "string"],
         answer |-> [type |-> "string"],
         hints |-> [type |-> "array", items |-> [type |-> "string"],
                    minItems |-> 3, maxItems |-> 3],
         explanation |-> [type |-> "string"],
         culture |-> [type |-> "string"],
         is_traditional |-> [type |-> "boolean"]],
     additionalProperties |-> FALSE]

IMAGE_REQUEST_SCHEMA ==
    [type |-> "object",
     required |-> {"scene_description", "culture"},
     properties |->
        [scene_description |-> [type |-> "string", minLength |-> 10],
         culture |-> [type |-> "string"],
         aspect_ratio |-> [type |-> "string",
                           enum |-> {Str("16:9"), Str("1:1"), Str("9:16")}]],
     additionalProperties |-> FALSE]

IMAGE_RESULT_SCHEMA ==
    [type |-> "object",
     required |-> {"status"},
     properties |->
        [status |-> [type |-> "string",
                     enum |-> {Str("success"), Str("failed"), Str("skipped")}],
         url |-> [type |-> "string"],
         error |-> [type |-> "string"]],
     additionalProperties |-> FALSE]

SCHEMA_REGISTRY ==
    [StoryRequest |-> STORY_REQUEST_SCHEMA,
     StoryChunk |-> STORY_CHUNK_SCHEMA,
     ValidatedChunk |-> VALIDATED_CHUNK_SCHEMA,
     RiddleRequest |-> RIDDLE_REQUEST_SCHEMA,
     RiddlePayload |-> RIDDLE_PAYLOAD_SCHEMA,
     ImageRequest |-> IMAGE_REQUEST_SCHEMA,
     ImageResult |-> IMAGE_RESULT_SCHEMA]

(***************************************************************************)
(* A2ASchemaValidator: Draft-7 validation, keyword by keyword.  An error   *)
(* is [kw, at]: the keyword that failed and the property it failed at.     *)
(***************************************************************************)
TypeOk(ty, x) ==
    CASE ty = "string" -> x.t = "str"
      [] ty = "number" -> x.t = "num"
      [] ty = "boolean" -> x.t = "bool"
      [] ty = "array" -> x.t = "arr"
      [] ty = "object" -> x.t = "obj"
      [] OTHER -> FALSE

Has(s, k) == k \in DOMAIN s

RECURSIVE iter_errors(_, _, _)
iter_errors(s, x, at) ==
    LET e(kw) == {[kw |-> kw, at |-> at]}
    IN  (IF Has(s, "type") /\ ~TypeOk(s.type, x) THEN e("type") ELSE {})
        \cup (IF Has(s, "enum") /\ x \notin s.enum THEN e("enum") ELSE {})
        \cup (IF x.t = "str" /\ Has(s, "minLength") /\ Len(x.v) < s.minLength
              THEN e("minLength") ELSE {})
        \cup (IF x.t = "num" /\ Has(s, "minimum") /\ x.v < s.minimum
              THEN e("minimum") ELSE {})
        \cup (IF x.t = "num" /\ Has(s, "maximum") /\ x.v > s.maximum
              THEN e("maximum") ELSE {})
        \cup (IF x.t = "arr" /\ Has(s, "minItems") /\ Len(x.v) < s.minItems
              THEN e("minItems") ELSE {})
        \cup (IF x.t = "arr" /\ Has(s, "maxItems") /\ Len(x.v) > s.maxItems
              THEN e("maxItems") ELSE {})
        \cup (IF x.t = "arr" /\ Has(s, "items")
              THEN UNION {iter_errors(s.items, x.v[i], at) : i \in DOMAIN x.v}
              ELSE {})
        \cup (IF x.t = "obj" /\ Has(s, "required")
              THEN {[kw |-> "required", at |-> f] : f \in s.required \ DOMAIN x.v}
              ELSE {})
        \cup (IF x.t = "obj" /\ Has(s, "properties")
              THEN UNION {iter_errors(s.properties[f], x.v[f], f) :
                             f \in DOMAIN x.v \cap DOMAIN s.properties}
              ELSE {})
        \cup (IF x.t = "obj" /\ Has(s, "additionalProperties")
                 /\ ~s.additionalProperties
              THEN {[kw |-> "additionalProperties", at |-> f] :
                       f \in DOMAIN x.v \ DOMAIN s.properties}
              ELSE {})

\* A2ASchemaValidator.validate: the error list
validate_errors(schema_name, data) ==
    IF schema_name \notin DOMAIN SCHEMA_REGISTRY
    THEN {[kw |-> "unknown_schema", at |-> schema_name]}
    ELSE iter_errors(SCHEMA_REGISTRY[schema_name], data, "")

\* A2ASchemaValidator.validate: is_valid
validate(schema_name, data) == validate_errors(schema_name, data) = {}

(***************************************************************************)
(* orchestrator/a2a_router.py                                              *)
(***************************************************************************)
\* AGENT_CARDS: each agent's input and output schema
AGENT_CARDS ==
    [story_agent |-> [input |-> "StoryRequest", output |-> "StoryChunk"],
     riddle_agent |-> [input |-> "RiddleRequest", output |-> "RiddlePayload"],
     cultural_grounding |-> [input |-> "StoryChunk", output |-> "ValidatedChunk"],
     visual_agent |-> [input |-> "ImageRequest", output |-> "ImageResult"]]

\* the fallbacks dict of _generate_safe_fallback
SafeFallbacks ==
    [StoryChunk |->
        Obj([text |-> Str("In some traditions, the story continues in ways that words alone cannot capture..."),
             culture |-> Str("african"),
             cultural_claims |-> Arr(<<>>),
             is_final |-> Bool(TRUE)]),
     ValidatedChunk |->
        Obj([text |-> Str("Let me continue with what I know to be true..."),
             confidence |-> Num(5),
             corrections |-> Arr(<<Str("Fallback response due to validation failure")>>),
             rejected_claims |-> Arr(<<>>),
             is_final |-> Bool(TRUE)]),
     RiddlePayload |->
        Obj([opening |-> Str("A riddle for you..."),
             riddle_text |-> Str("What has roots that nobody sees, is taller than trees, yet never grows?"),
             answer |-> Str("A mountain"),
             hints |-> Arr(<<Str("It stands very still."),
                             Str("It touches the sky."),
                             Str("You can climb it.")>>),
             explanation |-> Str("A classic riddle found in many oral traditions."),
             culture |-> Str("african"),
             is_traditional |-> Bool(FALSE)]),
     ImageResult |->
        Obj([status |-> Str("skipped"),
             error |-> Str("Image generation unavailable")])]

\* _generate_safe_fallback
_generate_safe_fallback(schema_name) ==
    IF schema_name \in DOMAIN SafeFallbacks
    THEN SafeFallbacks[schema_name]
    ELSE Obj([error |-> Str("No fallback for schema")])

\* the value of input_data["_correction"]: the message with the errors in it
Correction(errors) ==
    [t |-> "str", v |-> "Your previous output had schema errors", errors |-> errors]

\* _attempt_chunk_fix; None is Null
_attempt_chunk_fix(chunk, schema_name) ==
    IF chunk.t # "obj" THEN Null
    ELSE IF schema_name = "StoryChunk"
    THEN IF "text" \notin DOMAIN chunk.v THEN Null
         ELSE IF "culture" \notin DOMAIN chunk.v
              THEN WithField(chunk, "culture", Str("african"))
              ELSE chunk
    ELSE IF schema_name = "ValidatedChunk"
    THEN IF "text" \notin DOMAIN chunk.v THEN Null
         ELSE IF "confidence" \notin DOMAIN chunk.v
              THEN WithField(chunk, "confidence", Num(5))
              ELSE chunk
    ELSE Null

(***************************************************************************)
(* What an agent function may hand back, and what a caller may pass in     *)
(***************************************************************************)
GoodStoryChunk == Obj([text |-> Str("Once"), culture |-> Str("yoruba")])
StoryChunkNoCulture == Obj([text |-> Str("Once"), cultural_claims |-> Arr(<<>>)])
StoryChunkEmptyText == Obj([text |-> Str(""), culture |-> Str("yoruba")])
StoryChunkNoText == Obj([culture |-> Str("yoruba")])
StoryChunkBadClaim ==
    Obj([text |-> Str("Once"), culture |-> Str("yoruba"),
         cultural_claims |->
            Arr(<<Obj([claim |-> Str("Anansi is a spider"), category |-> Str("myth")])>>)])
GoodValidatedChunk == Obj([text |-> Str("Once"), confidence |-> Num(8)])
ValidatedNoConfidence == Obj([text |-> Str("Once")])
ValidatedOverConfident == Obj([text |-> Str("Once"), confidence |-> Num(15)])
ValidatedNoText == Obj([confidence |-> Num(8)])
GoodRiddle ==
    Obj([opening |-> Str("Kitendawili!"), riddle_text |-> Str("My house has no door"),
         answer |-> Str("An egg"), culture |-> Str("swahili"),
         hints |-> Arr(<<Str("one"), Str("two"), Str("three")>>)])
RiddleTwoHints ==
    Obj([opening |-> Str("Kitendawili!"), riddle_text |-> Str("My house has no door"),
         answer |-> Str("An egg"), culture |-> Str("swahili"),
         hints |-> Arr(<<Str("one"), Str("two")>>)])
RiddleNoAnswer ==
    Obj([opening |-> Str("Kitendawili!"), riddle_text |-> Str("My house has no door"),
         culture |-> Str("swahili")])
GoodImageResult == Obj([status |-> Str("success"), url |-> Str("https://img")])
ImageResultBadStatus == Obj([status |-> Str("done")])
NotADict == Str("not json")

AgentOutputs ==
    [StoryChunk |-> {GoodStoryChunk, StoryChunkNoCulture, StoryChunkEmptyText,
                     StoryChunkNoText, StoryChunkBadClaim, NotADict},
     ValidatedChunk |-> {GoodValidatedChunk, ValidatedNoConfidence,
                         ValidatedOverConfident, ValidatedNoText},
     RiddlePayload |-> {GoodRiddle, RiddleTwoHints, RiddleNoAnswer, NotADict},
     ImageResult |-> {GoodImageResult, ImageResultBadStatus, Null}]

AgentInputs ==
    [StoryRequest |-> {Obj([culture |-> Str("yoruba"), theme |-> Str("trickster")]),
                       Obj([culture |-> Str("yoruba"), theme |-> Str("horror")])},
     RiddleRequest |-> {Obj([culture |-> Str("swahili")]),
                        Obj([difficulty |-> Str("easy")])},
     StoryChunk |-> {GoodStoryChunk, StoryChunkNoCulture},
     ImageRequest |-> {Obj([scene_description |-> Str("a spider weaving"),
                            culture |-> Str("ashanti")]),
                       Obj([scene_description |-> Str("a spider"),
                            culture |-> Str("ashanti")])}]

\* what one await of agent_fn(input_data) ends with
Returned(x) == [kind |-> "return", value |-> x]
Raised(e) == [kind |-> "raise", value |-> Str(e)]

MaxRetriesBound == 2     \* max_retries ranges over 0..MaxRetriesBound
MaxChunks == 2           \* chunks an agent stream yields at most

(***************************************************************************)
(* dispatch_with_schema_enforcement, one step per await of agent_fn        *)
(***************************************************************************)
\* input_data is the local variable; caller_data is the content of the dict
\* object the caller passed in
DispatchIdle ==
    [pc |-> "idle", input_schema |-> "", output_schema |-> "",
     input_data |-> Null, caller_data |-> Null, max_retries |-> 0,
     attempt |-> 0, calls |-> <<>>, outcomes |-> <<>>, result |-> Null,
     error |-> ""]

\* for attempt in range(max_retries + 1): the next iteration, or the
\* return after the loop
next_attempt(d) ==
    IF d.attempt + 1 < d.max_retries + 1
    THEN [d EXCEPT !.attempt = @ + 1]
    ELSE [d EXCEPT !.pc = "returned",
                   !.result = _generate_safe_fallback(d.output_schema)]

dispatch_begin_lenient(input_schema, output_schema, input_data, max_retries) ==
    LET d == [DispatchIdle EXCEPT !.input_schema = input_schema,
                                  !.output_schema = output_schema,
                                  !.input_data = input_data,
                                  !.caller_data = input_data,
                                  !.max_retries = max_retries]
    IN  IF 0 < max_retries + 1
        THEN [d EXCEPT !.pc = "calling"]
        ELSE [d EXCEPT !.pc = "returned",
                       !.result = _generate_safe_fallback(output_schema)]

\* schema_validator.validate_or_reject(input_schema, input_data), then
\* the first iteration
dispatch_begin(input_schema, output_schema, input_data, max_retries) ==
    LET d == [DispatchIdle EXCEPT !.input_schema = input_schema,
                                  !.output_schema = output_schema,
                                  !.input_data = input_data,
                                  !.caller_data = input_data,
                                  !.max_retries = max_retries]
    IN  IF ~validate(input_schema, input_data)
        THEN [d EXCEPT !.pc = "raised", !.error = "SchemaViolationError"]
        ELSE IF 0 < max_retries + 1
        THEN [d EXCEPT !.pc = "calling"]
        ELSE [d EXCEPT !.pc = "returned",
                       !.result = _generate_safe_fallback(output_schema)]

on_valid_keep_going(d, result) ==
    IF d.attempt < d.max_retries
    THEN next_attempt(d)
    ELSE [d EXCEPT !.pc = "returned", !.result = result]

\* if is_valid: return result
on_valid(d, result) == [d EXCEPT !.pc = "returned", !.result = result]

on_invalid_pass(d, result) ==
    IF d.attempt < d.max_retries
    THEN next_attempt(
            [d EXCEPT !.input_data =
                WithField(@, "_correction",
                          Correction(validate_errors(d.output_schema, result)))])
    ELSE [d EXCEPT !.pc = "returned", !.result = result]

on_invalid_in_place(d, result) ==
    IF d.attempt < d.max_retries
    THEN LET x == WithField(d.input_data, "_correction",
                            Correction(validate_errors(d.output_schema, result)))
         IN  next_attempt([d EXCEPT !.input_data = x, !.caller_data = x])
    ELSE [d EXCEPT !.pc = "returned",
                   !.result = _generate_safe_fallback(d.output_schema)]

\* the schema violation branch: retry with correction on a copy of the
\* input (input_data = dict(input_data)), or the safe fallback
on_invalid(d, result) ==
    IF d.attempt < d.max_retries
    THEN next_attempt(
            [d EXCEPT !.input_data =
                WithField(@, "_correction",
                          Correction(validate_errors(d.output_schema, result)))])
    ELSE [d EXCEPT !.pc = "returned",
                   !.result = _generate_safe_fallback(d.output_schema)]

on_exception_reraise(d, o) ==
    IF o.value = Str("SchemaViolationError")
    THEN [d EXCEPT !.pc = "raised", !.error = "SchemaViolationError"]
    ELSE IF d.attempt >= d.max_retries
    THEN [d EXCEPT !.pc = "raised", !.error = o.value.v]
    ELSE next_attempt(d)

\* except SchemaViolationError: raise; except Exception: ...
on_exception(d, o) ==
    IF o.value = Str("SchemaViolationError")
    THEN [d EXCEPT !.pc = "raised", !.error = "SchemaViolationError"]
    ELSE IF d.attempt >= d.max_retries
    THEN [d EXCEPT !.pc = "returned",
                   !.result = _generate_safe_fallback(d.output_schema)]
    ELSE next_attempt(d)

\* one iteration of the loop: agent_fn(input_data) ended with outcome o
dispatch_step(d, o) ==
    LET d1 == [d EXCEPT !.calls = Append(@, d.input_data),
                        !.outcomes = Append(@, o)]
    IN  IF o.kind = "return"
        THEN IF validate(d.output_schema, o.value)
             THEN on_valid(d1, o.value)
             ELSE on_invalid(d1, o.value)
        ELSE on_exception(d1, o)

\* a caller calls dispatch_with_schema_enforcement
DispatchCall ==
    /\ dispatch.pc = "idle"
    /\ \E a \in DOMAIN AGENT_CARDS, r \in 0..MaxRetriesBound :
         \E data \in AgentInputs[AGENT_CARDS[a].input] :
            dispatch' = dispatch_begin(AGENT_CARDS[a].input,
                                       AGENT_CARDS[a].output, data, r)
    /\ UNCHANGED <<stream, a2a_task>>

\* agent_fn returns some value
AgentReturns ==
    /\ dispatch.pc = "calling"
    /\ \E x \in AgentOutputs[dispatch.output_schema] :
          dispatch' = dispatch_step(dispatch, Returned(x))
    /\ UNCHANGED <<stream, a2a_task>>

\* agent_fn raises
AgentRaises ==
    /\ dispatch.pc = "calling"
    /\ \E e \in {"Exception", "TimeoutError", "SchemaViolationError"} :
          dispatch' = dispatch_step(dispatch, Raised(e))
    /\ UNCHANGED <<stream, a2a_task>>

(***************************************************************************)
(* dispatch_streaming_with_schema, one step per chunk of agent_stream_fn   *)
(***************************************************************************)
StreamIdle ==
    [pc |-> "idle", input_schema |-> "", output_schema |-> "",
     input_data |-> Null, chunk_count |-> 0, violation_count |-> 0,
     received |-> <<>>, yielded |-> <<>>, error |-> ""]

stream_begin(input_schema, output_schema, input_data) ==
    LET s == [StreamIdle EXCEPT !.input_schema = input_schema,
                                !.output_schema = output_schema,
                                !.input_data = input_data]
    IN  IF ~validate(input_schema, input_data)
        THEN [s EXCEPT !.pc = "raised", !.error = "SchemaViolationError"]
        ELSE [s EXCEPT !.pc = "streaming"]

\* the body of "async for chunk in agent_stream_fn(input_data)"
stream_step(s, chunk) ==
    LET s1 == [s EXCEPT !.chunk_count = @ + 1, !.received = Append(@, chunk)]
    IN  IF validate(s.output_schema, chunk)
        THEN [s1 EXCEPT !.yielded = Append(@, chunk)]
        ELSE LET patched == _attempt_chunk_fix(chunk, s.output_schema)
             IN  IF patched # Null
                 THEN [s1 EXCEPT !.violation_count = @ + 1,
                                 !.yielded = Append(@, patched)]
                 ELSE [s1 EXCEPT !.violation_count = @ + 1]

\* a caller iterates dispatch_streaming_with_schema
StreamCall ==
    /\ stream.pc = "idle"
    /\ \E a \in DOMAIN AGENT_CARDS :
         \E data \in AgentInputs[AGENT_CARDS[a].input] :
            stream' = stream_begin(AGENT_CARDS[a].input,
                                   AGENT_CARDS[a].output, data)
    /\ UNCHANGED <<dispatch, a2a_task>>

\* the agent stream yields a chunk
StreamChunk ==
    /\ stream.pc = "streaming"
    /\ stream.chunk_count < MaxChunks
    /\ \E x \in AgentOutputs[stream.output_schema] :
          stream' = stream_step(stream, x)
    /\ UNCHANGED <<dispatch, a2a_task>>

\* the agent stream is exhausted
StreamEnd ==
    /\ stream.pc = "streaming"
    /\ stream' = [stream EXCEPT !.pc = "done"]
    /\ UNCHANGED <<dispatch, a2a_task>>

(***************************************************************************)
(* create_a2a_task                                                         *)
(***************************************************************************)
TaskIdle ==
    [pc |-> "idle", task_type |-> "", payload |-> Null, task |-> Null,
     error |-> ""]

\* create_a2a_task: validate_or_reject, then the A2ATask in state pending
create_a2a_task(task_type, payload, source_agent, target_agent) ==
    LET t == [TaskIdle EXCEPT !.task_type = task_type, !.payload = payload]
    IN  IF ~validate(task_type, payload)
        THEN [t EXCEPT !.pc = "raised", !.error = "SchemaViolationError"]
        ELSE [t EXCEPT !.pc = "created",
                       !.task = [task_type |-> task_type, payload |-> payload,
                                 source_agent |-> source_agent,
                                 target_agent |-> target_agent,
                                 state |-> "pending"]]

\* a caller calls create_a2a_task
CreateTask ==
    /\ a2a_task.pc = "idle"
    /\ \E a \in DOMAIN AGENT_CARDS :
         \E data \in AgentInputs[AGENT_CARDS[a].input] :
            a2a_task' = create_a2a_task(AGENT_CARDS[a].input, data,
                                        "orchestrator", a)
    /\ UNCHANGED <<dispatch, stream>>

InitA2AIdle ==
    /\ dispatch = DispatchIdle
    /\ stream = StreamIdle
    /\ a2a_task = TaskIdle

(***************************************************************************)
(* services/memory_manager.py.  A turn is its turn_id.  memory.writes is   *)
(* where the last write of each operation to the store stands: create,     *)
(* save_turn and update_preferences write in a task of their own,          *)
(* finalize_session awaits its write (memory.caller).  memory.log is       *)
(* history: every turn saved since create_session; memory.summarized is    *)
(* history: the turns of every window _summarize_old_turns has worked on.  *)
(***************************************************************************)
MAX_MEMORY_TURNS == 20
SUMMARIZE_THRESHOLD == 15
MaxTurnsSaved == 22          \* save_turn calls on the session
MaxPreferenceUpdates == 2    \* update_preferences calls on the session

StoreWrites ==
    {"create_session", "save_turn", "update_preferences", "finalize_session"}

\* the manager after create_session()
MemoryCreated ==
    [_turns |-> <<>>, _metadata |-> TRUE, _preferences |-> {},
     _context_summary |-> "", summarize_tasks |-> 0, summarized |-> {},
     writes |-> [w \in StoreWrites |->
                    IF w = "create_session" THEN "pending" ELSE "none"],
     caller |-> "idle", updates |-> 0, log |-> <<>>]

save_turn_keep_oldest(m, turn) ==
    LET ts == Append(m._turns, turn)
    IN  [m EXCEPT
            !._turns = IF Len(ts) > MAX_MEMORY_TURNS
                       THEN SubSeq(ts, 1, MAX_MEMORY_TURNS)
                       ELSE ts,
            !.writes["save_turn"] = "pending",
            !.log = Append(@, turn)]

\* save_turn: append; when the list is too long create the summarization
\* task and trim to the last MAX_MEMORY_TURNS; write to the store in a task.
\* save_turn awaits nothing, so the task it creates runs after it returns.
save_turn(m, turn) ==
    LET ts == Append(m._turns, turn)
    IN  [m EXCEPT
            !._turns = IF Len(ts) > MAX_MEMORY_TURNS
                       THEN SubSeq(ts, Len(ts) - MAX_MEMORY_TURNS + 1, Len(ts))
                       ELSE ts,
            !.summarize_tasks =
                IF Len(ts) > MAX_MEMORY_TURNS /\ Len(ts) >= SUMMARIZE_THRESHOLD
                THEN @ + 1 ELSE @,
            !.writes["save_turn"] = "pending",
            !.log = Append(@, turn)]

\* _summarize_old_turns: the window is self._turns[:SUMMARIZE_THRESHOLD] as
\* the list is when the task runs
_summarize_old_turns(m) ==
    LET n == IF Len(m._turns) < SUMMARIZE_THRESHOLD THEN Len(m._turns)
             ELSE SUMMARIZE_THRESHOLD
    IN  [m EXCEPT !._context_summary = "summary",
                  !.summarize_tasks = @ - 1,
                  !.summarized = @ \cup {m._turns[i] : i \in 1..n}]

\* finalize_session: awaits firestore.update_session when there is metadata
finalize_session(m) ==
    IF m._metadata
    THEN [m EXCEPT !.writes["finalize_session"] = "pending",
                   !.caller = "finalize_session"]
    ELSE m

\* a caller saves the next turn
SaveTurn ==
    /\ memory.caller = "idle"
    /\ Len(memory.log) < MaxTurnsSaved
    /\ memory' = save_turn(memory, Len(memory.log) + 1)
    /\ UNCHANGED <<endpoint, active_connections, grounding, adapter>>

\* a task created by save_turn runs _summarize_old_turns
SummarizeOldTurns ==
    /\ memory.summarize_tasks > 0
    /\ memory' = _summarize_old_turns(memory)
    /\ UNCHANGED <<endpoint, active_connections, grounding, adapter>>

\* handle_control: update_preferences
UpdatePreferences ==
    /\ memory.caller = "idle"
    /\ memory.updates < MaxPreferenceUpdates
    /\ \E key \in {"language_pref", "age_group"} :
          memory' = [memory EXCEPT
                        !._preferences = @ \cup {key},
                        !.writes["update_preferences"] = "pending",
                        !.updates = @ + 1]
    /\ UNCHANGED <<endpoint, active_connections, grounding, adapter>>

\* shutdown: finalize_session
FinalizeSession ==
    /\ memory.caller = "idle"
    /\ memory.writes["finalize_session"] = "none"
    /\ memory' = finalize_session(memory)
    /\ UNCHANGED <<endpoint, active_connections, grounding, adapter>>

\* a write to the store ends; FirestoreClient turns an exception into
\* False, which no caller looks at
StoreWriteEnds ==
    /\ \E w \in StoreWrites : \E outcome \in {"ok", "failed"} :
          /\ memory.writes[w] = "pending"
          /\ memory' = [memory EXCEPT
                           !.writes[w] = outcome,
                           !.caller = IF w = "finalize_session" THEN "idle"
                                      ELSE @]
    /\ UNCHANGED <<endpoint, active_connections, grounding, adapter>>

(***************************************************************************)
(* websocket_endpoint and _cleanup, connection by connection.  Connection  *)
(* 1 is the one whose session is modelled below; the others go through     *)
(* setup, service and cleanup step by step.                                *)
(***************************************************************************)
MaxConnections == 3      \* connections of the process
MaxCleanups == 1         \* times _cleanup is run again on a connection

CleanupSteps == {"send_task", "release", "finalize"}

Endpoint(pc) ==
    [pc |-> pc, session |-> FALSE, failed |-> {}, cleanups |-> 0]

EndpointsIdle ==
    [c \in 1..MaxConnections |->
        IF c = 1 THEN [Endpoint("serving") EXCEPT !.session = TRUE]
        ELSE Endpoint("accepted")]

_cleanup_unguarded(e, table, c, outcome) ==
    LET f(step) == IF outcome = "failed" THEN e.failed \cup {step}
                   ELSE e.failed
    IN  CASE e.pc = "cleanup" ->
               [endpoint |-> [e EXCEPT !.pc = IF e.session THEN "releasing"
                                              ELSE "finalizing",
                                       !.failed = f("send_task")],
                table |-> table]
          [] e.pc = "releasing" ->
               [endpoint |-> [e EXCEPT !.pc = "finalizing",
                                       !.failed = f("release")],
                table |-> table]
          [] OTHER ->
               IF outcome = "failed"
               THEN [endpoint |-> [e EXCEPT !.pc = "raised",
                                            !.failed = f("finalize")],
                     table |-> table]
               ELSE [endpoint |-> [e EXCEPT !.pc = "closed"],
                     table |-> table \ {c}]

\* _cleanup from one await to the next: the send task is cancelled and
\* awaited; shutdown releases the live session when there is one and then
\* awaits finalize_session; at the end the connection is popped from the
\* table.  A step that fails has its exception caught where it is raised
\* (close(), FirestoreClient), so the next step runs all the same.
_cleanup(e, table, c, outcome) ==
    LET f(step) == IF outcome = "failed" THEN e.failed \cup {step}
                   ELSE e.failed
    IN  CASE e.pc = "cleanup" ->
               [endpoint |-> [e EXCEPT !.pc = IF e.session THEN "releasing"
                                              ELSE "finalizing",
                                       !.failed = f("send_task")],
                table |-> table]
          [] e.pc = "releasing" ->
               [endpoint |-> [e EXCEPT !.pc = "finalizing",
                                       !.failed = f("release")],
                table |-> table]
          [] OTHER ->
               [endpoint |-> [e EXCEPT !.pc = "closed",
                                       !.failed = f("finalize")],
                table |-> table \ {c}]

\* orchestrator.initialize() returns and the connection is registered, or it
\* raises (no live session) and the finally clause runs _cleanup
SetupEnds(c) ==
    /\ endpoint[c].pc = "accepted"
    /\ \/ /\ endpoint' = [endpoint EXCEPT ![c].pc = "serving",
                                            ![c].session = TRUE]
          /\ active_connections' = active_connections \cup {c}
       \/ /\ endpoint' = [endpoint EXCEPT ![c].pc = "cleanup"]
          /\ UNCHANGED active_connections
    /\ UNCHANGED <<memory, grounding, adapter>>

\* the receive loop ends, by WebSocketDisconnect or by another exception
ConnectionEnds(c) ==
    /\ endpoint[c].pc = "serving"
    /\ endpoint' = [endpoint EXCEPT ![c].pc = "cleanup"]
    /\ UNCHANGED <<memory, active_connections, grounding, adapter>>

\* the await _cleanup waits in returns or raises
CleanupStep(c) ==
    /\ endpoint[c].pc \in {"cleanup", "releasing", "finalizing"}
    /\ \E outcome \in {"ok", "failed"} :
          LET r == _cleanup(endpoint[c], active_connections, c, outcome)
          IN  /\ endpoint' = [endpoint EXCEPT ![c] = r.endpoint]
              /\ active_connections' = r.table
    /\ UNCHANGED <<memory, grounding, adapter>>

\* _cleanup is run once more on a connection it has cleaned up
CleanupAgain(c) ==
    /\ endpoint[c].pc = "closed"
    /\ endpoint[c].cleanups < MaxCleanups
    /\ endpoint' = [endpoint EXCEPT ![c].pc = "cleanup",
                                    ![c].cleanups = @ + 1]
    /\ UNCHANGED <<memory, active_connections, grounding, adapter>>

(***************************************************************************)
(* AgentDispatcher._dispatch_with_grounding on one agent stream, with the  *)
(* dispatcher's cultural breaker.  The clock is in seconds; confidences    *)
(* are in tenths.  grounding.last is the chunk yielded last: whether       *)
(* is_open() held it back from the validator, whether the breaker was      *)
(* open or half-open when it arrived (a probe), how the validation ended.  *)
(***************************************************************************)
MaxGroundedChunks == 8   \* chunks of the agent stream
ClockStep == 10          \* seconds between two looks at the clock
MaxClock == 60           \* the clock stops here
PassThroughConfidence == 5

\* self.breakers["cultural"]
CulturalBreaker == CircuitBreaker(5, 30)

GroundingIdle ==
    [chunks |-> 0, failures |-> 0, yielded |-> <<>>,
     last |-> [called |-> FALSE, probe |-> FALSE, outcome |-> "none",
               cultural_confidence |-> 0]]

BreakerCultural ==
    /\ breaker = CulturalBreaker
    /\ now = 0
    /\ cb_op = "init"
    /\ cb_ret = "none"
    /\ cb_prev = CulturalBreaker
    /\ cb_streak = 0
    /\ cb_reopened = FALSE

\* how validate_agent_response under wait_for(timeout=2.0) can end
ValidationOutcomes == {"ok", "timeout", "raised"}
ValidationFailed(outcome) == outcome \in {"timeout", "raised"}

_dispatch_with_grounding_strict(b, t, outcome, confidence) ==
    LET asked == is_open_effect(b, t)
    IN  IF is_open_result(b, t)
        THEN [breaker |-> asked, called |-> FALSE, outcome |-> "none",
              yields |-> 1, cultural_confidence |-> PassThroughConfidence]
        ELSE IF outcome = "ok"
        THEN [breaker |-> asked, called |-> TRUE, outcome |-> "ok",
              yields |-> 1, cultural_confidence |-> confidence]
        ELSE [breaker |-> record_failure(asked, t), called |-> TRUE,
              outcome |-> outcome, yields |-> 0,
              cultural_confidence |-> PassThroughConfidence]

\* one iteration of the loop over the agent stream: the breaker afterwards
\* and the chunk yielded (yields: how many times the iteration yields).
\* outcome is how the validation ends; confidence is what a validator that
\* answers writes into the chunk.
_dispatch_with_grounding(b, t, outcome, confidence) ==
    LET asked == is_open_effect(b, t)
    IN  IF is_open_result(b, t)
        THEN [breaker |-> asked, called |-> FALSE, outcome |-> "none",
              yields |-> 1, cultural_confidence |-> PassThroughConfidence]
        ELSE IF outcome = "ok"
        THEN [breaker |-> asked, called |-> TRUE, outcome |-> "ok",
              yields |-> 1, cultural_confidence |-> confidence]
        ELSE [breaker |-> record_failure(asked, t), called |-> TRUE,
              outcome |-> outcome, yields |-> 1,
              cultural_confidence |-> PassThroughConfidence]

\* the agent stream yields its next chunk (chunk number chunks + 1)
GroundChunk ==
    /\ grounding.chunks < MaxGroundedChunks
    /\ \E outcome \in ValidationOutcomes, confidence \in {3, 9} :
          LET r == _dispatch_with_grounding(breaker, now, outcome, confidence)
              chunk == grounding.chunks + 1
          IN  /\ breaker' = r.breaker
              /\ grounding' =
                    [chunks |-> chunk,
                     failures |-> IF ValidationFailed(r.outcome)
                                  THEN grounding.failures + 1
                                  ELSE grounding.failures,
                     yielded |-> grounding.yielded
                                 \o [k \in 1..r.yields |-> chunk],
                     last |-> [called |-> r.called,
                               probe |-> breaker.state # "closed",
                               outcome |-> r.outcome,
                               cultural_confidence |-> r.cultural_confidence]]
    /\ UNCHANGED <<now, cb_op, cb_ret, cb_prev, cb_streak, cb_reopened>>
    /\ UNCHANGED <<memory, endpoint, active_connections, adapter>>

\* time.time() moves on
ClockAdvances ==
    /\ now + ClockStep <= MaxClock
    /\ now' = now + ClockStep
    /\ UNCHANGED <<breaker, cb_op, cb_ret, cb_prev, cb_streak, cb_reopened>>
    /\ UNCHANGED serviceVars

(***************************************************************************)
(* services/gemini_client.py: GeminiLiveSession after connect().  Events   *)
(* are numbered as _listen puts them.  adapter.consumer is where the task  *)
(* iterating receive_events() stands: "head" (at the while test, or        *)
(* suspended at the yield while the caller handles the event), "getting"  *)
(* (suspended in wait_for(get) on an empty queue), "woken" (an event was   *)
(* put for its get, the task has not run since), "stopped".                *)
(***************************************************************************)
MaxAdapterEvents == 3    \* events the live API delivers
MaxCloses == 2           \* calls of close()
MaxSends == 2            \* send_* calls that reach the live API

AdapterConnected ==
    [_is_connected |-> TRUE, _listen |-> "running", _event_queue |-> <<>>,
     consumer |-> "head", put |-> 0, yielded |-> <<>>,
     sent |-> 0, closes |-> 0, exits |-> 0]

\* the body of "while self._is_connected" in receive_events, from the test
\* to the next suspension
receive_events(a) ==
    IF ~a._is_connected THEN [a EXCEPT !.consumer = "stopped"]
    ELSE IF a._event_queue = <<>> THEN [a EXCEPT !.consumer = "getting"]
    ELSE [a EXCEPT !._event_queue = Tail(@),
                   !.yielded = Append(@, Head(a._event_queue)),
                   !.consumer = "head"]

\* close(): the flag, the listener task cancelled and awaited, __aexit__ of
\* the native session with its exception caught
close(a) ==
    [a EXCEPT !._is_connected = FALSE,
              !._listen = IF @ = "running" THEN "cancelled" ELSE @,
              !.exits = @ + 1,
              !.closes = @ + 1]

\* send_audio, send_text, send_function_response: nothing when not
\* connected, else self._live.send with its exception caught
send(a) ==
    IF ~a._is_connected THEN a ELSE [a EXCEPT !.sent = @ + 1]

\* _listen receives a response and puts its event
ListenPuts ==
    /\ adapter._listen = "running"
    /\ adapter.put < MaxAdapterEvents
    /\ adapter' = [adapter EXCEPT
                      !.put = @ + 1,
                      !._event_queue = Append(@, adapter.put + 1),
                      !.consumer = IF @ = "getting" THEN "woken" ELSE @]
    /\ UNCHANGED <<memory, endpoint, active_connections, grounding>>

\* self._live.receive() raises: the error event is put while connected, and
\* _listen ends
ListenFails ==
    /\ adapter._listen = "running"
    /\ adapter.put < MaxAdapterEvents
    /\ adapter' = [adapter EXCEPT
                      !._listen = "done",
                      !.put = @ + 1,
                      !._event_queue = Append(@, adapter.put + 1),
                      !.consumer = IF @ = "getting" THEN "woken" ELSE @]
    /\ UNCHANGED <<memory, endpoint, active_connections, grounding>>

\* the consumer asks for the next event
ConsumerNext ==
    /\ adapter.consumer = "head"
    /\ adapter' = receive_events(adapter)
    /\ UNCHANGED <<memory, endpoint, active_connections, grounding>>

\* the consumer runs again after its get was served: the event is yielded
ConsumerResumes ==
    /\ adapter.consumer = "woken"
    /\ LET event == Head(adapter._event_queue)
       IN  adapter' = [adapter EXCEPT
                         !._event_queue = Tail(@),
                         !.yielded = Append(@, event),
                         !.consumer = "head"]
    /\ UNCHANGED <<memory, endpoint, active_connections, grounding>>

\* wait_for(get, 60 s) times out on a session that was closed: continue,
\* and the while test ends the iteration
GetTimesOut ==
    /\ adapter.consumer = "getting"
    /\ ~adapter._is_connected
    /\ adapter' = receive_events(adapter)
    /\ UNCHANGED <<memory, endpoint, active_connections, grounding>>

\* shutdown releases the session, or close() is called once more
AdapterClose ==
    /\ adapter.closes < MaxCloses
    /\ adapter' = close(adapter)
    /\ UNCHANGED <<memory, endpoint, active_connections, grounding>>

\* a handler calls send_audio, send_text or send_function_response
AdapterSend ==
    /\ adapter.sent < MaxSends
    /\ adapter' = send(adapter)
    /\ adapter' # adapter \/ ~adapter._is_connected
    /\ UNCHANGED <<memory, endpoint, active_connections, grounding>>

(***************************************************************************)
(* One client connection: gateway/websocket_handler.py,                    *)
(* orchestrator/streaming_controller.py, orchestrator/primary_orchestrator *)
(* Text is a sequence of characters.  Each task runs without interruption  *)
(* from one suspension (an await that really waits) to the next.           *)
(***************************************************************************)
MaxClientMessages == 2   \* messages the client sends on the connection
MaxEvents == 3           \* events the live model emits
MaxKeepalives == 1       \* 30 s timeouts of the send loop on an empty queue
MaxCalls == 2            \* function_call events among the events
MaxAgentChunks == 1      \* chunks an agent yields to a function call
STREAM_BUFFER_HIGH_WATERMARK == 2   \* maxsize of the output queue (scaled down)

MAX_TEXT_BUFFER == 200   \* send_text_chunk: force flush beyond this length

Whitespace == {" ", "\n"}

\* str.rstrip()
rstrip(s) ==
    SubSeq(s, 1, CHOOSE i \in 0..Len(s) :
                    /\ i = 0 \/ s[i] \notin Whitespace
                    /\ \A j \in (i + 1)..Len(s) : s[j] \in Whitespace)

\* str.endswith(e)
endswith(s, e) ==
    Len(s) >= Len(e) /\ SubSeq(s, Len(s) - Len(e) + 1, Len(s)) = e

\* send_text_chunk: sentence_enders
sentence_enders == {<<".">>, <<"!">>, <<"?">>, <<".", ".", ".">>, <<"\n">>}

\* a ServerMessage; born is history: the number of interrupts handled before
\* its content was produced
ServerMessage(type, data, born) == [type |-> type, data |-> data, born |-> born]

\* asyncio.Queue.full()
full(q) == Len(q) >= STREAM_BUFFER_HIGH_WATERMARK

\* a run of StreamingController._enqueue calls up to the first one that has
\* to wait: put_nowait while the queue has room
RECURSIVE enqueue_all(_, _)
enqueue_all(q, msgs) ==
    IF msgs = <<>> THEN [queue |-> q, pending |-> <<>>]
    ELSE IF full(q) THEN [queue |-> q, pending |-> msgs]
    ELSE enqueue_all(Append(q, Head(msgs)), Tail(msgs))

\* _flush_text_buffer: the buffer afterwards and the messages to enqueue
_flush_text_buffer(buf, born) ==
    IF rstrip(buf) = <<>>
    THEN [buffer |-> buf, msgs |-> <<>>]
    ELSE [buffer |-> <<>>, msgs |-> <<ServerMessage("text_chunk", buf, born)>>]

send_text_chunk_at_limit(buf, born, text) ==
    LET b == buf \o text
    IN  IF \E e \in sentence_enders : endswith(rstrip(b), e)
        THEN _flush_text_buffer(b, born)
        ELSE IF Len(b) >= MAX_TEXT_BUFFER
        THEN _flush_text_buffer(b, born)
        ELSE [buffer |-> b, msgs |-> <<>>]

\* send_text_chunk
send_text_chunk(buf, born, text) ==
    LET b == buf \o text
    IN  IF \E e \in sentence_enders : endswith(rstrip(b), e)
        THEN _flush_text_buffer(b, born)
        ELSE IF Len(b) > MAX_TEXT_BUFFER
        THEN _flush_text_buffer(b, born)
        ELSE [buffer |-> b, msgs |-> <<>>]

\* send_turn_end
send_turn_end(buf, born, epoch) ==
    LET f == IF buf # <<>> THEN _flush_text_buffer(buf, born)
             ELSE [buffer |-> buf, msgs |-> <<>>]
    IN  [buffer |-> f.buffer,
         msgs |-> Append(f.msgs, ServerMessage("turn_end", <<>>, epoch))]

next_seq_reuse(c) == c

\* ConnectionState.next_seq
next_seq_skipping(c) == [c EXCEPT !._seq_counter = @ + 2]

next_seq(c) == [c EXCEPT !._seq_counter = @ + 1]

\* _send_message; sent is history: the number of interrupts handled before
_send_message(c, msg, sent) ==
    IF ~c.connected THEN c
    ELSE LET c1 == next_seq(c)
         IN  IF c.broken
             THEN c1          \* send_json raises; the exception is logged
             ELSE [c1 EXCEPT !.wire =
                      Append(@, [type |-> msg.type, data |-> msg.data,
                                 seq |-> c1._seq_counter,
                                 born |-> msg.born, sent |-> sent])]

cancel_active_and_images(ts, active) ==
    [i \in DOMAIN ts |->
        IF i \in active /\ ts[i].pc \in {"created", "dispatching"}
        THEN [ts[i] EXCEPT !.pc = "cancelled",
                           !.images = [k \in DOMAIN @ |-> "cancelled"]]
        ELSE ts[i]]

\* task.cancel() on the tasks of _active_tasks that are not done
cancel_active(ts, active) ==
    [i \in DOMAIN ts |->
        IF i \in active /\ ts[i].pc \in {"created", "dispatching"}
        THEN [ts[i] EXCEPT !.pc = "cancelled"]
        ELSE ts[i]]

ToSet(s) == {s[i] : i \in DOMAIN s}

SessionIdle ==
    /\ conn = [connected |-> TRUE, broken |-> FALSE, _seq_counter |-> 1,
               wire |-> <<[type |-> "session_created", data |-> <<>>,
                           seq |-> 1, born |-> 0, sent |-> 0]>>]
    /\ output_queue = <<>>
    /\ receiver = [pc |-> "receiving", pending |-> <<>>]
    /\ sender = "running"
    /\ orch = [state |-> "idle", current_turn_id |-> 0, _active_tasks |-> <<>>,
               _text_buffer |-> <<>>, _is_connected |-> TRUE,
               _listener_task |-> "running"]
    /\ listener = [pc |-> "waiting", pending |-> <<>>, after |-> "none"]
    /\ tasks = [i \in 1..MaxCalls |->
                  [pc |-> "none", name |-> "", args |-> Null, path |-> "",
                   result |-> <<>>, image_tasks |-> 0, images |-> <<>>]]
    /\ responses = <<>>
    /\ memory = MemoryCreated
    /\ endpoint = EndpointsIdle
    /\ active_connections = {1}
    /\ grounding = GroundingIdle
    /\ adapter = AdapterConnected
    /\ hist = [interrupts |-> 0, turns |-> 0, buf_born |-> 0,
               client_messages |-> 0, events |-> 0, keepalives |-> 0,
               calls |-> 0, bad |-> 0, last |-> "init",
               inputs |-> << <<>> >>, dropped |-> {},
               before |-> [state |-> "idle", current_turn_id |-> 0],
               call |-> [kind |-> "none", before |-> <<>>, text |-> <<>>,
                         msgs |-> <<>>]]

handle_interrupt_keep_tasks(o, ts, fresh_turn) ==
    [orch |-> [o EXCEPT !.state = "listening",
                        !._active_tasks = <<>>,
                        !.current_turn_id = fresh_turn],
     tasks |-> ts,
     output_queue |-> <<>>]

\* handle_interrupt: runs without a suspension (send_interrupt is a no-op);
\* fresh_turn is the new turn id
handle_interrupt(o, ts, fresh_turn) ==
    [orch |-> [o EXCEPT !.state = "listening",
                        !._active_tasks = <<>>,
                        !.current_turn_id = fresh_turn],
     tasks |-> cancel_active(ts, ToSet(o._active_tasks)),
     output_queue |-> <<>>]

\* what the listener still has to do after the enqueue it waits in
apply_after(o, after) ==
    CASE after = "set_idle" -> [o EXCEPT !.state = "idle"]
      [] after = "clear_turn" -> [o EXCEPT !.current_turn_id = 0]
      [] OTHER -> o

\* the listener enqueues msgs one after the other from orchestrator state o,
\* as far as the queue lets it, then does `after` and waits for the next
\* event of receive_events (which ends once the session is closed)
ListenerRuns(o, q, msgs, after) ==
    LET r == enqueue_all(q, msgs)
    IN  /\ output_queue' = r.queue
        /\ IF r.pending = <<>>
           THEN /\ orch' = apply_after(o, after)
                /\ listener' = [pc |-> IF o._is_connected THEN "waiting"
                                       ELSE "stopped",
                                pending |-> <<>>, after |-> "none"]
           ELSE /\ orch' = o
                /\ listener' = [pc |-> "blocked", pending |-> r.pending,
                                after |-> after]

Note(h, what) == [h EXCEPT !.last = what]
NoteEvent(h, what) == [h EXCEPT !.events = @ + 1, !.last = what]
NoteClient(h, what) == [h EXCEPT !.client_messages = @ + 1, !.last = what]

ListenerGetsEvent ==
    /\ listener.pc = "waiting"
    /\ orch._is_connected
    /\ orch._listener_task = "running"
    /\ hist.events < MaxEvents

ReceiverGetsMessage ==
    /\ receiver.pc = "receiving"
    /\ conn.connected
    /\ ~conn.broken
    /\ hist.client_messages < MaxClientMessages

TextFragments == {<<"a">>, <<"b", ".">>, <<" ">>}

(***************************************************************************)
(* _gemini_response_listener: one action per event type                    *)
(***************************************************************************)
\* a text event carrying text; h is the history to continue from
TextEvent(text, h) ==
    /\ ListenerGetsEvent
    /\ LET born == IF orch._text_buffer = <<>> THEN hist.interrupts
                   ELSE hist.buf_born
           s == send_text_chunk(orch._text_buffer, born, text)
       IN  /\ ListenerRuns([orch EXCEPT !.state = "streaming",
                                        !._text_buffer = s.buffer],
                           output_queue, s.msgs, "none")
           /\ hist' = [NoteEvent(h, "text") EXCEPT
                          !.buf_born = IF s.buffer = <<>> THEN 0 ELSE born]
    /\ UNCHANGED <<conn, receiver, sender, tasks, responses>>

GeminiText == \E text \in TextFragments : TextEvent(text, hist)

GeminiAudio ==
    /\ ListenerGetsEvent
    /\ ListenerRuns([orch EXCEPT !.state = "streaming"], output_queue,
                    <<ServerMessage("audio_chunk", <<>>, hist.interrupts)>>,
                    "none")
    /\ hist' = NoteEvent(hist, "audio")
    /\ UNCHANGED <<conn, receiver, sender, tasks, responses>>

\* a turn_complete event; h is the history to continue from
TurnCompleteEvent(h) ==
    /\ ListenerGetsEvent
    /\ LET s == send_turn_end(orch._text_buffer, hist.buf_born, hist.interrupts)
       IN  /\ ListenerRuns([orch EXCEPT !.state = "idle",
                                        !._text_buffer = s.buffer],
                           output_queue, s.msgs, "clear_turn")
           /\ hist' = [NoteEvent(h, "turn_complete") EXCEPT
                          !.buf_born = IF s.buffer = <<>> THEN 0 ELSE @]
    /\ UNCHANGED <<conn, receiver, sender, tasks, responses>>

GeminiTurnComplete == TurnCompleteEvent(hist)

\* receive() raises: _listen puts the error event and leaves its loop
GeminiError ==
    /\ ListenerGetsEvent
    /\ ListenerRuns([orch EXCEPT !._listener_task = "done"], output_queue,
                    <<ServerMessage("error", <<>>, hist.interrupts)>>,
                    "set_idle")
    /\ hist' = NoteEvent(hist, "error")
    /\ UNCHANGED <<conn, receiver, sender, tasks, responses>>

\* handle_interrupt(), then output_queue.put(INTERRUPTED)
GeminiInterrupted ==
    /\ ListenerGetsEvent
    /\ LET r == handle_interrupt(orch, tasks, hist.turns + 1)
       IN  /\ tasks' = r.tasks
           /\ ListenerRuns(r.orch, r.output_queue,
                  <<ServerMessage("interrupted", <<>>, hist.interrupts + 1)>>,
                  "none")
    /\ hist' = [NoteEvent(hist, "model_interrupt") EXCEPT
                   !.interrupts = @ + 1, !.turns = @ + 1,
                   !.before = [state |-> orch.state,
                               current_turn_id |-> orch.current_turn_id]]
    /\ UNCHANGED <<conn, receiver, sender, responses>>

\* the listener's wait in queue.put ends: the queue has room again
ListenerPutCompletes ==
    /\ listener.pc = "blocked"
    /\ ~full(output_queue)
    /\ ListenerRuns(orch, output_queue, listener.pending, listener.after)
    /\ hist' = Note(hist, "put")
    /\ UNCHANGED <<conn, receiver, sender, tasks, responses>>

\* _enqueue: the 5 s wait_for runs out and the message is dropped
ListenerPutTimeout ==
    /\ listener.pc = "blocked"
    /\ ListenerRuns(orch, output_queue, Tail(listener.pending), listener.after)
    /\ hist' = [Note(hist, "drop") EXCEPT
                   !.dropped = @ \cup {Head(listener.pending).type}]
    /\ UNCHANGED <<conn, receiver, sender, tasks, responses>>

(***************************************************************************)
(* The streaming controller driven call by call.  The history keeps the    *)
(* text given in each turn (hist.inputs) and the last call (hist.call).    *)
(***************************************************************************)
HorizontalEllipsis == "U+2026"      \* the one character of that code point

Repeat(c, n) == [i \in 1..n |-> c]

\* the type and the data of each message of a sequence
Plain(msgs) ==
    [i \in DOMAIN msgs |-> [type |-> msgs[i].type, data |-> msgs[i].data]]

\* the text of a send_text_chunk call
ControllerTexts ==
    {<<"a">>, <<"b", ".">>, <<"!">>, <<"?", " ">>, <<" ">>, <<"\n">>,
     <<HorizontalEllipsis>>,
     Repeat("a", MAX_TEXT_BUFFER), Repeat(" ", MAX_TEXT_BUFFER + 1)}

\* stream_controller.send_text_chunk(text)
SendTextChunk ==
    \E text \in ControllerTexts :
        LET s == send_text_chunk(orch._text_buffer, 0, text)
        IN  TextEvent(text,
               [hist EXCEPT
                  !.inputs[Len(hist.inputs)] = @ \o text,
                  !.call = [kind |-> "text", before |-> orch._text_buffer,
                            text |-> text,
                            msgs |-> Plain(s.msgs)]])

\* stream_controller.send_turn_end()
SendTurnEnd ==
    LET s == send_turn_end(orch._text_buffer, 0, 0)
    IN  TurnCompleteEvent(
           [hist EXCEPT
              !.inputs = Append(@, <<>>),
              !.call = [kind |-> "turn_end", before |-> orch._text_buffer,
                        text |-> <<>>,
                        msgs |-> Plain(s.msgs)]])

(***************************************************************************)
(* _receive_loop: one action per client message                            *)
(***************************************************************************)
\* ping: the pong goes out through _send_message, not through the queue
ClientPing ==
    /\ ReceiverGetsMessage
    /\ conn' = _send_message(conn, ServerMessage("pong", <<>>, hist.interrupts),
                             hist.interrupts)
    /\ hist' = NoteClient(hist, "ping")
    /\ UNCHANGED <<output_queue, receiver, sender, orch, listener, tasks, responses>>

\* text_input: handle_text_input() writes the turn id and the state, then
\* saves the turn and hands the text to the live session
ClientText ==
    /\ ReceiverGetsMessage
    /\ orch' = [orch EXCEPT !.current_turn_id = hist.turns + 1,
                            !.state = "processing"]
    /\ memory' = save_turn(memory, hist.turns + 1)
    /\ hist' = [NoteClient(hist, "text_input") EXCEPT
                   !.turns = @ + 1,
                   !.before = [state |-> orch.state,
                               current_turn_id |-> orch.current_turn_id]]
    /\ UNCHANGED <<conn, output_queue, receiver, sender, listener, tasks,
                   responses>>

\* audio_chunk: handle_audio_chunk()
ClientAudio ==
    /\ ReceiverGetsMessage
    /\ LET fresh == orch.state \in {"idle", "listening"}
                    /\ orch.current_turn_id = 0
       IN  /\ orch' = [orch EXCEPT
                         !.state = IF @ \in {"idle", "listening"}
                                   THEN "listening" ELSE @,
                         !.current_turn_id = IF fresh THEN hist.turns + 1
                                             ELSE @]
           /\ hist' = [NoteClient(hist, "audio_input") EXCEPT
                          !.turns = IF fresh THEN @ + 1 ELSE @,
                          !.before = [state |-> orch.state,
                                      current_turn_id |-> orch.current_turn_id]]
    /\ UNCHANGED <<conn, output_queue, receiver, sender, listener, tasks,
                   responses>>

\* interrupt: handle_interrupt()
ClientInterrupt ==
    /\ ReceiverGetsMessage
    /\ LET r == handle_interrupt(orch, tasks, hist.turns + 1)
       IN  /\ orch' = r.orch
           /\ tasks' = r.tasks
           /\ output_queue' = r.output_queue
    /\ hist' = [NoteClient(hist, "client_interrupt") EXCEPT
                   !.interrupts = @ + 1, !.turns = @ + 1,
                   !.before = [state |-> orch.state,
                               current_turn_id |-> orch.current_turn_id]]
    /\ UNCHANGED <<conn, receiver, sender, listener, responses>>

receive_loop_except_logs(q, born) == [queue |-> q, pending |-> <<>>]

\* _receive_loop's except Exception: output_queue.put(ERROR)
receive_loop_except(q, born) ==
    enqueue_all(q, <<ServerMessage("error", <<>>, born)>>)

\* a message that makes its handling raise (no JSON, an unknown type tag, a
\* field of the wrong shape): the except branch, whose put waits while the
\* queue is full
ClientBadMessage ==
    /\ ReceiverGetsMessage
    /\ LET r == receive_loop_except(output_queue, hist.interrupts)
       IN  /\ output_queue' = r.queue
           /\ receiver' = IF r.pending = <<>> THEN receiver
                          ELSE [pc |-> "blocked", pending |-> r.pending]
    /\ hist' = [NoteClient(hist, "bad_message") EXCEPT !.bad = @ + 1]
    /\ UNCHANGED <<conn, sender, orch, listener, tasks, responses>>

ReceiverPutCompletes ==
    /\ receiver.pc = "blocked"
    /\ ~full(output_queue)
    /\ output_queue' = output_queue \o receiver.pending
    /\ receiver' = [pc |-> "receiving", pending |-> <<>>]
    /\ hist' = Note(hist, "put")
    /\ UNCHANGED <<conn, sender, orch, listener, tasks, responses>>

\* the peer goes away: from now on send_json raises
PeerGone ==
    /\ conn.connected /\ ~conn.broken
    /\ conn' = [conn EXCEPT !.broken = TRUE]
    /\ hist' = Note(hist, "peer_gone")
    /\ UNCHANGED <<output_queue, receiver, sender, orch, listener, tasks, responses>>

\* receive_json raises WebSocketDisconnect: _cleanup cancels the send task,
\* orchestrator.shutdown() cancels the active tasks, closes the session and
\* finalizes the memory (its write taken to return), and the connection is
\* popped from the table
ClientDisconnect ==
    /\ receiver.pc = "receiving"
    /\ conn.connected /\ conn.broken
    /\ conn' = [conn EXCEPT !.connected = FALSE]
    /\ receiver' = [pc |-> "closed", pending |-> <<>>]
    /\ sender' = "stopped"
    /\ tasks' = cancel_active(tasks, ToSet(orch._active_tasks))
    /\ orch' = [orch EXCEPT !._is_connected = FALSE]
    /\ listener' = IF listener.pc = "waiting"
                   THEN [listener EXCEPT !.pc = "stopped"]
                   ELSE listener
    /\ memory' = [memory EXCEPT !.writes["finalize_session"] = "ok"]
    /\ endpoint' = [endpoint EXCEPT ![1].pc = "closed"]
    /\ active_connections' = active_connections \ {1}
    /\ hist' = Note(hist, "shutdown")
    /\ UNCHANGED <<output_queue, responses>>

(***************************************************************************)
(* _output_sender                                                          *)
(***************************************************************************)
\* queue.get() returns a message and _send_message writes it
SenderSend ==
    /\ sender = "running"
    /\ conn.connected
    /\ output_queue # <<>>
    /\ conn' = _send_message(conn, Head(output_queue), hist.interrupts)
    /\ output_queue' = Tail(output_queue)
    /\ hist' = Note(hist, "send")
    /\ UNCHANGED <<receiver, sender, orch, listener, tasks, responses>>

\* queue.get() times out after 30 s: a pong as keepalive
SenderKeepalive ==
    /\ sender = "running"
    /\ conn.connected
    /\ output_queue = <<>>
    /\ hist.keepalives < MaxKeepalives
    /\ conn' = _send_message(conn, ServerMessage("pong", <<>>, hist.interrupts),
                             hist.interrupts)
    /\ hist' = [Note(hist, "keepalive") EXCEPT !.keepalives = @ + 1]
    /\ UNCHANGED <<output_queue, receiver, sender, orch, listener, tasks, responses>>

(***************************************************************************)
(* _handle_function_call: one task per function_call event                 *)
(***************************************************************************)
\* intent_map.get(func_name, IntentType.UNKNOWN)
intent_map(name) ==
    CASE name = "tell_story" -> "request_story"
      [] name = "pose_riddle" -> "request_riddle"
      [] name = "generate_scene_image" -> "request_image"
      [] name = "get_cultural_context" -> "ask_cultural"
      [] OTHER -> "unknown"

\* schema_map.get(func_name, (None, None)); None is ""
schema_map(name) ==
    CASE name = "tell_story" -> [agent |-> "story_agent", schema |-> "StoryRequest"]
      [] name = "pose_riddle" -> [agent |-> "riddle_agent", schema |-> "RiddleRequest"]
      [] name = "generate_scene_image" ->
            [agent |-> "visual_agent", schema |-> "ImageRequest"]
      [] name = "get_cultural_context" ->
            [agent |-> "cultural_grounding", schema |-> ""]
      [] OTHER -> [agent |-> "", schema |-> ""]

\* MemoryManager.get_context_summary() of a session without history
context_summary == Str("New conversation, no history yet.")

\* TOOL_DECLARATIONS: the parameters of each function as advertised to the
\* live model
TOOL_DECLARATIONS ==
    [tell_story |->
        [type |-> "object",
         properties |->
            [culture |-> [type |-> "string"],
             theme |-> [type |-> "string"],
             complexity |-> [type |-> "string",
                             enum |-> {Str("child"), Str("teen"), Str("adult")}]],
         required |-> {"culture", "theme"}],
     pose_riddle |->
        [type |-> "object",
         properties |->
            [culture |-> [type |-> "string"],
             difficulty |-> [type |-> "string",
                             enum |-> {Str("easy"), Str("medium"), Str("hard")}]],
         required |-> {"culture"}],
     generate_scene_image |->
        [type |-> "object",
         properties |->
            [scene_description |-> [type |-> "string"],
             culture |-> [type |-> "string"]],
         required |-> {"scene_description"}],
     get_cultural_context |->
        [type |-> "object",
         properties |->
            [topic |-> [type |-> "string"],
             culture |-> [type |-> "string"]],
         required |-> {"topic"}]]

\* the args a function_call event may carry, by function name: as declared,
\* outside the A2A schema, and with a value of another JSON type
ToolArgs ==
    [tell_story |->
        {Obj([culture |-> Str("yoruba"), theme |-> Str("wisdom")]),
         Obj([culture |-> Str("yoruba"), theme |-> Str("friendship")]),
         Obj([culture |-> Num(50), theme |-> Str("wisdom")])},
     pose_riddle |->
        {Obj([culture |-> Str("swahili"), difficulty |-> Str("easy")]),
         Obj([difficulty |-> Str("easy")])},
     generate_scene_image |->
        {Obj([scene_description |-> Str("a spider weaving"),
              culture |-> Str("ashanti")])},
     get_cultural_context |->
        {Obj([topic |-> Str("griots"), culture |-> Str("mande")])},
     unknown_tool |-> {Obj([topic |-> Str("griots")])}]

\* AgentRequest(...) accepts the args: culture and theme are Optional[str],
\* age_group is str
AgentRequestOk(args) ==
    /\ \A f \in {"culture", "theme"} \cap DOMAIN args.v :
          args.v[f].t \in {"str", "null"}
    /\ "complexity" \in DOMAIN args.v => args.v["complexity"].t = "str"

\* create_a2a_task raises no SchemaViolationError on the payload
create_a2a_task_ok(task_type, payload) ==
    create_a2a_task(task_type, payload, "orchestrator", "").error = ""

\* the branch of _handle_function_call a call takes
call_path(name, args) ==
    LET m == schema_map(name)
    IN  IF m.agent # "" /\ m.schema # ""
        THEN IF create_a2a_task_ok(m.schema,
                    WithField(args, "session_context", context_summary))
             THEN "a2a"
             ELSE "fallback"
        ELSE "legacy"

\* gemini_session.send_function_response(func_id, func_name, result_text)
send_function_response(rs, func_id, func_name, result) ==
    Append(rs, [id |-> func_id, name |-> func_name, result |-> result])

\* function_call: the task is created and kept in _active_tasks
GeminiFunctionCall ==
    /\ ListenerGetsEvent
    /\ hist.calls < MaxCalls
    /\ \E name \in DOMAIN ToolArgs :
         \E args \in ToolArgs[name] :
            tasks' = [tasks EXCEPT ![hist.calls + 1] =
                         [@ EXCEPT !.pc = "created", !.name = name,
                                   !.args = args]]
    /\ orch' = [orch EXCEPT !.state = "processing",
                            !._active_tasks = Append(@, hist.calls + 1)]
    /\ hist' = [NoteEvent(hist, "function_call") EXCEPT !.calls = @ + 1]
    /\ UNCHANGED <<conn, output_queue, receiver, sender, listener, responses>>

\* the task runs up to its first suspension: it builds the AgentRequest,
\* creates the A2A task and enters dispatcher.dispatch(), which for an image
\* request or an unknown intent yields at once
TaskStart(i) ==
    /\ tasks[i].pc = "created"
    /\ LET t == tasks[i]
           intent == intent_map(t.name)
           path == call_path(t.name, t.args)
       IN  IF ~AgentRequestOk(t.args)
           THEN /\ tasks' = [tasks EXCEPT ![i].pc = "crashed"]
                /\ UNCHANGED responses
           ELSE IF intent \in {"request_story", "request_riddle", "ask_cultural"}
           THEN /\ tasks' = [tasks EXCEPT ![i].pc = "dispatching",
                                          ![i].path = path]
                /\ UNCHANGED responses
           ELSE LET text == IF intent = "request_image"
                            THEN <<"Let me paint that scene for you...">>
                            ELSE <<"">>
                IN  /\ tasks' = [tasks EXCEPT
                          ![i].pc = "done", ![i].path = path,
                          ![i].result = text,
                          ![i].image_tasks =
                              IF intent = "request_image" /\ path = "a2a"
                              THEN @ + 1 ELSE @,
                          ![i].images =
                              IF intent = "request_image" /\ path = "a2a"
                              THEN Append(@, "spawned") ELSE @]
                    /\ responses' = send_function_response(responses, i, t.name, text)
    /\ hist' = Note(hist, "task")
    /\ UNCHANGED <<conn, output_queue, receiver, sender, orch, listener>>

\* the agent yields a chunk; on the A2A path a visual_moment starts an
\* image task
AgentChunk(i) ==
    /\ tasks[i].pc = "dispatching"
    /\ Len(tasks[i].result) < MaxAgentChunks
    /\ \E visual_moment \in BOOLEAN :
         /\ tasks' = [tasks EXCEPT
            ![i].result = Append(@, "chunk"),
            ![i].image_tasks = IF visual_moment /\ tasks[i].path = "a2a"
                               THEN @ + 1 ELSE @,
            ![i].images = IF visual_moment /\ tasks[i].path = "a2a"
                          THEN Append(@, "spawned") ELSE @]
         /\ hist' = Note(hist, IF visual_moment THEN "visual_chunk"
                                ELSE "chunk")
    /\ UNCHANGED <<conn, output_queue, receiver, sender, orch, listener, responses>>

\* the agent's stream ends, or it times out or raises and dispatch() yields
\* its apology; the task then sends the function response
AgentStreamEnds(i) ==
    /\ tasks[i].pc = "dispatching"
    /\ \E outcome \in {"end", "timeout", "raise"} :
         LET text == CASE outcome = "end" -> tasks[i].result
                       [] outcome = "timeout" ->
                            Append(tasks[i].result,
                                   "I need a moment to gather my thoughts...")
                       [] OTHER ->
                            Append(tasks[i].result,
                                   "Let me try a different approach...")
         IN  /\ tasks' = [tasks EXCEPT ![i].pc = "done", ![i].result = text]
             /\ responses' = send_function_response(responses, i,
                                                    tasks[i].name, text)
    /\ hist' = Note(hist, "task")
    /\ UNCHANGED <<conn, output_queue, receiver, sender, orch, listener>>

(***************************************************************************)
(* _trigger_image_generation: one task per visual moment, created with     *)
(* asyncio.create_task and kept nowhere.  tasks[i].images[k] is where the  *)
(* k-th image task of call i stands.  The breaker is the visual breaker.   *)
(***************************************************************************)
_trigger_image_generation_reports(outcome, born) ==
    IF outcome = "success"
    THEN <<ServerMessage("image_ready", <<>>, born)>>
    ELSE <<ServerMessage("error", <<>>, born)>>

\* what _trigger_image_generation sends once generate_image has ended:
\* image_ready for a url, nothing for None or an exception
_trigger_image_generation(outcome, born) ==
    IF outcome = "success"
    THEN <<ServerMessage("image_ready", <<>>, born)>>
    ELSE <<>>

\* the image task enqueues msgs through _enqueue and ends, or waits in it
ImageSends(i, k, msgs, ended) ==
    LET r == enqueue_all(output_queue, msgs)
    IN  /\ output_queue' = r.queue
        /\ tasks' = [tasks EXCEPT ![i].images[k] =
                        IF r.pending = <<>> THEN ended ELSE "blocked"]
        /\ hist' = Note(hist, "image")
        /\ UNCHANGED <<conn, receiver, sender, orch, listener, responses>>

\* generate_image starts: nothing to do while the visual breaker is open,
\* else visual_agent.execute under wait_for(30 s)
ImageStarts ==
    /\ \E i \in DOMAIN tasks : \E k \in DOMAIN tasks[i].images :
          /\ tasks[i].images[k] = "spawned"
          /\ tasks' = [tasks EXCEPT ![i].images[k] =
                          IF is_open_result(breaker, now) THEN "skipped"
                          ELSE "executing"]
    /\ IsOpen
    /\ hist' = Note(hist, "image")
    /\ UNCHANGED <<conn, output_queue, receiver, sender, orch, listener,
                   responses>>

\* execute returns: a url, or a result without one
ImageEnds ==
    /\ \E i \in DOMAIN tasks : \E k \in DOMAIN tasks[i].images :
          /\ tasks[i].images[k] = "executing"
          /\ \E outcome \in {"success", "no_url"} :
                ImageSends(i, k,
                           _trigger_image_generation(outcome, hist.interrupts),
                           IF outcome = "success" THEN "done" ELSE "no_url")
    /\ UNCHANGED breakerVars

\* execute raises or runs into the 30 s timeout: record_failure
ImageFails ==
    /\ \E i \in DOMAIN tasks : \E k \in DOMAIN tasks[i].images :
          /\ tasks[i].images[k] = "executing"
          /\ ImageSends(i, k,
                        _trigger_image_generation("raise", hist.interrupts),
                        "failed")
    /\ RecordFailure

\* the image task's wait in _enqueue ends: room in the queue, or the 5 s
\* are over and the message is dropped
ImagePutEnds ==
    /\ \E i \in DOMAIN tasks : \E k \in DOMAIN tasks[i].images :
          /\ tasks[i].images[k] = "blocked"
          /\ \/ /\ ~full(output_queue)
                /\ output_queue' =
                      Append(output_queue,
                             ServerMessage("image_ready", <<>>, hist.interrupts))
                /\ tasks' = [tasks EXCEPT ![i].images[k] = "done"]
             \/ /\ output_queue' = output_queue
                /\ tasks' = [tasks EXCEPT ![i].images[k] = "dropped"]
    /\ hist' = Note(hist, "image")
    /\ UNCHANGED <<conn, receiver, sender, orch, listener, responses>>
    /\ UNCHANGED breakerVars

(***************************************************************************)
(* Specifications                                                          *)
(***************************************************************************)
routerVars == <<breaker, now, cb_op, cb_ret, cb_prev, cb_streak, cb_reopened,
                dispatch, stream, a2a_task, memory, endpoint,
                active_connections, grounding, adapter>>

\* one call of dispatch_with_schema_enforcement
InitDispatch == BreakerIdle /\ InitA2AIdle /\ SessionIdle

NextDispatch ==
    \/ DispatchCall /\ UNCHANGED <<breakerVars, sessionVars, serviceVars>>
    \/ AgentReturns /\ UNCHANGED <<breakerVars, sessionVars, serviceVars>>
    \/ AgentRaises /\ UNCHANGED <<breakerVars, sessionVars, serviceVars>>

\* every await of agent_fn ends: the agent returns or raises
SpecDispatch ==
    InitDispatch /\ [][NextDispatch]_vars
    /\ WF_vars((AgentReturns \/ AgentRaises)
               /\ UNCHANGED <<breakerVars, sessionVars, serviceVars>>)

\* one call of dispatch_streaming_with_schema
InitStream == BreakerIdle /\ InitA2AIdle /\ SessionIdle

NextStream ==
    \/ StreamCall /\ UNCHANGED <<breakerVars, sessionVars, serviceVars>>
    \/ StreamChunk /\ UNCHANGED <<breakerVars, sessionVars, serviceVars>>
    \/ StreamEnd /\ UNCHANGED <<breakerVars, sessionVars, serviceVars>>

SpecStream == InitStream /\ [][NextStream]_vars

\* the three entry points that validate their input, called one after
\* another: a dispatch starts when no other dispatch has got past its
\* input validation
CallCreateTask == CreateTask
CallDispatch == stream.pc \in {"idle", "raised"} /\ DispatchCall
CallStream ==
    /\ dispatch.pc \in {"idle", "raised"}
    /\ dispatch.calls = <<>>
    /\ StreamCall

InitInputs == BreakerIdle /\ InitA2AIdle /\ SessionIdle

NextInputs ==
    \/ CallCreateTask /\ UNCHANGED <<breakerVars, sessionVars, serviceVars>>
    \/ CallDispatch /\ UNCHANGED <<breakerVars, sessionVars, serviceVars>>
    \/ CallStream /\ UNCHANGED <<breakerVars, sessionVars, serviceVars>>
    \/ AgentReturns /\ UNCHANGED <<breakerVars, sessionVars, serviceVars>>
    \/ AgentRaises /\ UNCHANGED <<breakerVars, sessionVars, serviceVars>>
    \/ StreamChunk /\ UNCHANGED <<breakerVars, sessionVars, serviceVars>>
    \/ StreamEnd /\ UNCHANGED <<breakerVars, sessionVars, serviceVars>>

SpecInputs == InitInputs /\ [][NextInputs]_vars

\* the streaming controller called by one task, the send loop draining
InitController == BreakerIdle /\ InitA2AIdle /\ SessionIdle

NextController ==
    \/ SendTextChunk /\ UNCHANGED routerVars
    \/ SendTurnEnd /\ UNCHANGED routerVars
    \/ ListenerPutCompletes /\ UNCHANGED routerVars
    \/ SenderSend /\ UNCHANGED routerVars

SpecController == InitController /\ [][NextController]_vars

\* the producers of one connection in front of a send loop that may stop
\* draining; the 5 s timer of a waiting _enqueue does run out, and a put
\* that waits is resumed once the queue has room
InitBackpressure == BreakerIdle /\ InitA2AIdle /\ SessionIdle

NextBackpressure ==
    \/ GeminiAudio /\ UNCHANGED routerVars
    \/ GeminiTurnComplete /\ UNCHANGED routerVars
    \/ GeminiError /\ UNCHANGED routerVars
    \/ GeminiInterrupted /\ UNCHANGED routerVars
    \/ ListenerPutCompletes /\ UNCHANGED routerVars
    \/ ListenerPutTimeout /\ UNCHANGED routerVars
    \/ ClientBadMessage /\ UNCHANGED routerVars
    \/ ReceiverPutCompletes /\ UNCHANGED routerVars
    \/ SenderSend /\ UNCHANGED routerVars

SpecBackpressure ==
    InitBackpressure /\ [][NextBackpressure]_vars
    /\ WF_vars(ListenerPutTimeout /\ UNCHANGED routerVars)
    /\ WF_vars(ListenerPutCompletes /\ UNCHANGED routerVars)
    /\ WF_vars(ReceiverPutCompletes /\ UNCHANGED routerVars)

\* one circuit breaker: any caller, any timing
InitBreaker == BreakerFresh /\ InitA2AIdle /\ SessionIdle

NextBreaker ==
    \/ IsOpen /\ UNCHANGED <<a2aVars, sessionVars, serviceVars>>
    \/ RecordFailure /\ UNCHANGED <<a2aVars, sessionVars, serviceVars>>
    \/ RecordSuccess /\ UNCHANGED <<a2aVars, sessionVars, serviceVars>>
    \/ Tick /\ UNCHANGED <<a2aVars, sessionVars, serviceVars>>

SpecBreaker == InitBreaker /\ [][NextBreaker]_vars

\* one connection: the send loop, the receive loop and a producer of audio
InitGateway == BreakerIdle /\ InitA2AIdle /\ SessionIdle

NextGateway ==
    \/ GeminiAudio /\ UNCHANGED routerVars
    \/ ListenerPutCompletes /\ UNCHANGED routerVars
    \/ ListenerPutTimeout /\ UNCHANGED routerVars
    \/ ClientPing /\ UNCHANGED routerVars
    \/ ClientBadMessage /\ UNCHANGED routerVars
    \/ ReceiverPutCompletes /\ UNCHANGED routerVars
    \/ PeerGone /\ UNCHANGED routerVars
    \/ ClientDisconnect /\ UNCHANGED <<breakerVars, a2aVars, grounding, adapter>>
    \/ SenderSend /\ UNCHANGED routerVars
    \/ SenderKeepalive /\ UNCHANGED routerVars

SpecGateway == InitGateway /\ [][NextGateway]_vars

\* one connection: the listener streaming a turn, the send loop, and
\* interrupts from the client and from the live model
InitInterrupt == BreakerIdle /\ InitA2AIdle /\ SessionIdle

NextInterrupt ==
    \/ GeminiText /\ UNCHANGED routerVars
    \/ GeminiAudio /\ UNCHANGED routerVars
    \/ GeminiTurnComplete /\ UNCHANGED routerVars
    \/ GeminiError /\ UNCHANGED routerVars
    \/ GeminiInterrupted /\ UNCHANGED routerVars
    \/ ListenerPutCompletes /\ UNCHANGED routerVars
    \/ ListenerPutTimeout /\ UNCHANGED routerVars
    \/ ClientInterrupt /\ UNCHANGED routerVars
    \/ SenderSend /\ UNCHANGED routerVars

SpecInterrupt == InitInterrupt /\ [][NextInterrupt]_vars

\* the same, with the send loop draining the queue and a put that can
\* complete completing
SpecInterruptFair ==
    SpecInterrupt
    /\ WF_vars(SenderSend /\ UNCHANGED routerVars)
    /\ WF_vars(ListenerPutCompletes /\ UNCHANGED routerVars)

\* one connection: the function calls of the live model
InitTools == BreakerIdle /\ InitA2AIdle /\ SessionIdle

TaskRuns == \E i \in 1..MaxCalls : TaskStart(i)
AgentYields == \E i \in 1..MaxCalls : AgentChunk(i)
AgentFinishes == \E i \in 1..MaxCalls : AgentStreamEnds(i)

NextTools ==
    \/ GeminiFunctionCall /\ UNCHANGED routerVars
    \/ TaskRuns /\ UNCHANGED routerVars
    \/ AgentYields /\ UNCHANGED routerVars
    \/ AgentFinishes /\ UNCHANGED routerVars
    \/ GeminiInterrupted /\ UNCHANGED routerVars
    \/ ClientInterrupt /\ UNCHANGED routerVars
    \/ PeerGone /\ UNCHANGED routerVars
    \/ ClientDisconnect /\ UNCHANGED <<breakerVars, a2aVars, grounding, adapter>>

\* a task that can run does run, and every agent's stream ends
SpecTools ==
    InitTools /\ [][NextTools]_vars
    /\ WF_vars(TaskRuns /\ UNCHANGED routerVars)
    /\ WF_vars(AgentFinishes /\ UNCHANGED routerVars)

\* one turn with tool calls and their image tasks: the primary stream is
\* scheduled and drained, nothing is assumed about the image tasks
InitTurn == BreakerIdle /\ InitA2AIdle /\ SessionIdle

\* the model calls tell_story, the tool whose chunks carry visual moments
StoryCall ==
    GeminiFunctionCall /\ tasks'[hist.calls + 1].name = "tell_story"

NextTurn ==
    \/ StoryCall /\ UNCHANGED routerVars
    \/ TaskRuns /\ UNCHANGED routerVars
    \/ AgentYields /\ UNCHANGED routerVars
    \/ AgentFinishes /\ UNCHANGED routerVars
    \/ ImageStarts /\ UNCHANGED <<a2aVars, serviceVars>>
    \/ ImageEnds /\ UNCHANGED <<a2aVars, serviceVars>>
    \/ ImageFails /\ UNCHANGED <<a2aVars, serviceVars>>
    \/ ImagePutEnds /\ UNCHANGED <<a2aVars, serviceVars>>
    \/ GeminiAudio /\ UNCHANGED routerVars
    \/ GeminiTurnComplete /\ UNCHANGED routerVars
    \/ ListenerPutCompletes /\ UNCHANGED routerVars
    \/ SenderSend /\ UNCHANGED routerVars

SpecTurn ==
    InitTurn /\ [][NextTurn]_vars
    /\ WF_vars(TaskRuns /\ UNCHANGED routerVars)
    /\ WF_vars(AgentFinishes /\ UNCHANGED routerVars)
    /\ WF_vars(ListenerPutCompletes /\ UNCHANGED routerVars)
    /\ WF_vars(SenderSend /\ UNCHANGED routerVars)

\* client input and the live model's events on one connection
NextConversation ==
    \/ ClientText /\ UNCHANGED <<breakerVars, a2aVars, endpoint,
                                 active_connections, grounding, adapter>>
    \/ ClientAudio /\ UNCHANGED routerVars
    \/ ClientInterrupt /\ UNCHANGED routerVars
    \/ GeminiText /\ UNCHANGED routerVars
    \/ GeminiAudio /\ UNCHANGED routerVars
    \/ GeminiTurnComplete /\ UNCHANGED routerVars
    \/ GeminiError /\ UNCHANGED routerVars
    \/ GeminiInterrupted /\ UNCHANGED routerVars
    \/ ListenerPutCompletes /\ UNCHANGED routerVars
    \/ ListenerPutTimeout /\ UNCHANGED routerVars
    \/ SenderSend /\ UNCHANGED routerVars

SpecConversation == InitTurn /\ [][NextConversation]_vars

\* the receive loop with well-formed and malformed messages; the send loop
\* drains the queue
NextReceive ==
    \/ ClientBadMessage /\ UNCHANGED routerVars
    \/ ClientPing /\ UNCHANGED routerVars
    \/ ClientText /\ UNCHANGED <<breakerVars, a2aVars, endpoint,
                                 active_connections, grounding, adapter>>
    \/ ClientAudio /\ UNCHANGED routerVars
    \/ GeminiAudio /\ UNCHANGED routerVars
    \/ GeminiText /\ UNCHANGED routerVars
    \/ ListenerPutCompletes /\ UNCHANGED routerVars
    \/ ReceiverPutCompletes /\ UNCHANGED routerVars
    \/ SenderSend /\ UNCHANGED routerVars

SpecReceive ==
    InitTurn /\ [][NextReceive]_vars
    /\ WF_vars(SenderSend /\ UNCHANGED routerVars)
    /\ WF_vars(ReceiverPutCompletes /\ UNCHANGED routerVars)

\* story calls and their agent streams, the breaker being
\* breakers["story"]: dispatch() touches no breaker
NextAgents ==
    \/ StoryCall /\ UNCHANGED routerVars
    \/ TaskRuns /\ UNCHANGED routerVars
    \/ AgentYields /\ UNCHANGED routerVars
    \/ AgentFinishes /\ UNCHANGED routerVars
    \/ GeminiText /\ UNCHANGED routerVars
    \/ SenderSend /\ UNCHANGED routerVars

SpecAgents == InitTurn /\ [][NextAgents]_vars

\* the live-model adapter with its listener, its consumer and its callers
NextAdapter ==
    \/ ListenPuts /\ UNCHANGED <<breakerVars, a2aVars, sessionVars>>
    \/ ListenFails /\ UNCHANGED <<breakerVars, a2aVars, sessionVars>>
    \/ ConsumerNext /\ UNCHANGED <<breakerVars, a2aVars, sessionVars>>
    \/ ConsumerResumes /\ UNCHANGED <<breakerVars, a2aVars, sessionVars>>
    \/ GetTimesOut /\ UNCHANGED <<breakerVars, a2aVars, sessionVars>>
    \/ AdapterClose /\ UNCHANGED <<breakerVars, a2aVars, sessionVars>>
    \/ AdapterSend /\ UNCHANGED <<breakerVars, a2aVars, sessionVars>>

\* the consumer's task is scheduled and the 60 s timer fires
SpecAdapter ==
    InitTurn /\ [][NextAdapter]_vars
    /\ WF_vars(ConsumerNext /\ UNCHANGED <<breakerVars, a2aVars, sessionVars>>)
    /\ WF_vars(ConsumerResumes /\ UNCHANGED <<breakerVars, a2aVars, sessionVars>>)
    /\ WF_vars(GetTimesOut /\ UNCHANGED <<breakerVars, a2aVars, sessionVars>>)

\* a story stream through cultural grounding
InitGrounding == BreakerCultural /\ InitA2AIdle /\ SessionIdle

NextGrounding ==
    \/ GroundChunk /\ UNCHANGED <<a2aVars, sessionVars>>
    \/ ClockAdvances /\ UNCHANGED <<a2aVars, sessionVars>>

SpecGrounding == InitGrounding /\ [][NextGrounding]_vars

\* the memory manager of one session: any order of its write operations
NextMemory ==
    \/ SaveTurn /\ UNCHANGED <<breakerVars, a2aVars, sessionVars>>
    \/ SummarizeOldTurns /\ UNCHANGED <<breakerVars, a2aVars, sessionVars>>
    \/ UpdatePreferences /\ UNCHANGED <<breakerVars, a2aVars, sessionVars>>
    \/ FinalizeSession /\ UNCHANGED <<breakerVars, a2aVars, sessionVars>>
    \/ StoreWriteEnds /\ UNCHANGED <<breakerVars, a2aVars, sessionVars>>

SpecMemory == InitTurn /\ [][NextMemory]_vars

SetupReturns == \E c \in 2..MaxConnections : SetupEnds(c)
ReceiveLoopEnds == \E c \in 2..MaxConnections : ConnectionEnds(c)
CleanupRuns == \E c \in 2..MaxConnections : CleanupStep(c)
CleanupRunsAgain == \E c \in 2..MaxConnections : CleanupAgain(c)

\* the connections of the process: every await of _cleanup returns or raises
NextEndpoint ==
    \/ SetupReturns /\ UNCHANGED <<breakerVars, a2aVars, sessionVars>>
    \/ ReceiveLoopEnds /\ UNCHANGED <<breakerVars, a2aVars, sessionVars>>
    \/ CleanupRuns /\ UNCHANGED <<breakerVars, a2aVars, sessionVars>>
    \/ CleanupRunsAgain /\ UNCHANGED <<breakerVars, a2aVars, sessionVars>>

SpecEndpoint ==
    InitTurn /\ [][NextEndpoint]_vars
    /\ WF_vars(CleanupRuns /\ UNCHANGED <<breakerVars, a2aVars, sessionVars>>)

\* a connection with tool calls and image tasks that ends
NextTeardown ==
    \/ StoryCall /\ UNCHANGED routerVars
    \/ TaskRuns /\ UNCHANGED routerVars
    \/ AgentYields /\ UNCHANGED routerVars
    \/ AgentFinishes /\ UNCHANGED routerVars
    \/ ImageStarts /\ UNCHANGED <<a2aVars, serviceVars>>
    \/ ImageEnds /\ UNCHANGED <<a2aVars, serviceVars>>
    \/ ImageFails /\ UNCHANGED <<a2aVars, serviceVars>>
    \/ ImagePutEnds /\ UNCHANGED <<a2aVars, serviceVars>>
    \/ GeminiAudio /\ UNCHANGED routerVars
    \/ ListenerPutCompletes /\ UNCHANGED routerVars
    \/ ListenerPutTimeout /\ UNCHANGED routerVars
    \/ SenderSend /\ UNCHANGED routerVars
    \/ PeerGone /\ UNCHANGED routerVars
    \/ ClientDisconnect /\ UNCHANGED <<breakerVars, a2aVars, grounding, adapter>>

SpecTeardown == InitTurn /\ [][NextTeardown]_vars

\* tool calls, their image tasks and interrupts: every image task is
\* scheduled, and visual_agent.execute ends within its 30 s
NextImages ==
    \/ StoryCall /\ UNCHANGED routerVars
    \/ TaskRuns /\ UNCHANGED routerVars
    \/ AgentYields /\ UNCHANGED routerVars
    \/ AgentFinishes /\ UNCHANGED routerVars
    \/ ImageStarts /\ UNCHANGED <<a2aVars, serviceVars>>
    \/ ImageEnds /\ UNCHANGED <<a2aVars, serviceVars>>
    \/ ImageFails /\ UNCHANGED <<a2aVars, serviceVars>>
    \/ ImagePutEnds /\ UNCHANGED <<a2aVars, serviceVars>>
    \/ GeminiInterrupted /\ UNCHANGED routerVars
    \/ ClientInterrupt /\ UNCHANGED routerVars
    \/ SenderSend /\ UNCHANGED routerVars

SpecImages ==
    InitTurn /\ [][NextImages]_vars
    /\ WF_vars(ImageStarts /\ UNCHANGED <<a2aVars, serviceVars>>)
    /\ WF_vars(ImageEnds /\ UNCHANGED <<a2aVars, serviceVars>>)
    /\ WF_vars(ImagePutEnds /\ UNCHANGED <<a2aVars, serviceVars>>)

(***************************************************************************)
(* Circuit breaker properties (SpecBreaker)                                *)
(***************************************************************************)
\* C6: a new breaker is closed; is_open() returns false while fewer than
\* max_failures failures were recorded since the last success; the breaker
\* goes from closed to open exactly when the max_failures-th consecutive
\* failure is recorded; and from then on is_open() returns true for every
\* query made no later than reset_timeout after the last recorded failure.
C6_OpensAtThreshold ==
    /\ cb_op = "init" => breaker.state = "closed"
    /\ cb_op = "is_open" /\ cb_streak < breaker.max_failures => cb_ret = "false"
    /\ (cb_prev.state = "closed" /\ breaker.state = "open")
          <=> (cb_op = "record_failure" /\ cb_streak = breaker.max_failures)
    /\ cb_op = "is_open" /\ cb_streak >= breaker.max_failures
          /\ now - breaker.last_failure_time <= breaker.reset_timeout
       => cb_ret = "true"

C6_Witness ==
    /\ cb_op = "is_open" /\ cb_ret = "true"
    /\ breaker.max_failures = 3 /\ cb_streak = 3
    /\ now - breaker.last_failure_time = breaker.reset_timeout

\* C7: is_open() on an open breaker more than reset_timeout after the last
\* failure moves it to half-open and returns false; every is_open() on a
\* half-open breaker returns false and leaves it half-open.
C7_HalfOpenProbe ==
    /\ cb_op = "is_open" /\ cb_prev.state = "open"
          /\ now - cb_prev.last_failure_time > cb_prev.reset_timeout
       => breaker.state = "half_open" /\ cb_ret = "false"
    /\ cb_op = "is_open" /\ cb_prev.state = "half_open"
       => breaker.state = "half_open" /\ cb_ret = "false"

C7_Witness ==
    cb_op = "is_open" /\ cb_prev.state = "half_open" /\ cb_ret = "false"

\* C8: from half-open, record_success closes the breaker with
\* failure_count 0; record_failure opens it again with the time of the
\* failure as the new open-time, so that is_open() on the re-opened breaker
\* returns true exactly until more than reset_timeout has passed since then.
C8_HalfOpenResolution ==
    /\ cb_op = "record_success" /\ cb_prev.state = "half_open"
       => breaker.state = "closed" /\ breaker.failure_count = 0
    /\ cb_op = "record_failure" /\ cb_prev.state = "half_open"
       => breaker.state = "open" /\ breaker.last_failure_time = now
          /\ cb_reopened
    /\ cb_op = "is_open" /\ cb_prev.state = "open" /\ cb_reopened
       => (cb_ret = "true"
             <=> now - cb_prev.last_failure_time <= cb_prev.reset_timeout)

C8_Witness ==
    /\ cb_op = "is_open" /\ cb_prev.state = "open" /\ cb_reopened
    /\ cb_ret = "true"
    /\ now - breaker.last_failure_time = breaker.reset_timeout

\* C9: after any number of record_failure calls, also enough of them to
\* open the breaker, record_success leaves failure_count at 0.
C9_SuccessResets ==
    cb_op = "record_success" => breaker.failure_count = 0

C9_Witness ==
    /\ cb_op = "record_success"
    /\ cb_prev.state = "open"
    /\ cb_prev.failure_count > cb_prev.max_failures
    /\ breaker.failure_count = 0

(***************************************************************************)
(* A2A router properties (SpecDispatch, SpecStream)                        *)
(***************************************************************************)
\* the schemas agents declare as outputs; each has a declared safe fallback
OutputSchemas == {AGENT_CARDS[a].output : a \in DOMAIN AGENT_CARDS}

IsValidReturn(d, o) == o.kind = "return" /\ validate(d.output_schema, o.value)
IsInvalidReturn(d, o) == o.kind = "return" /\ ~validate(d.output_schema, o.value)

\* C3: whatever the agent does on each attempt, the dict that
\* dispatch_with_schema_enforcement returns validates against the output
\* schema or is that schema's declared safe fallback; and each of the four
\* declared safe fallbacks validates against its schema.
C3_ValidOrFallback ==
    /\ dispatch.pc = "returned" =>
          /\ dispatch.output_schema \in DOMAIN SafeFallbacks
          /\ \/ validate(dispatch.output_schema, dispatch.result)
             \/ dispatch.result = SafeFallbacks[dispatch.output_schema]
    /\ OutputSchemas = DOMAIN SafeFallbacks
    /\ \A S \in OutputSchemas : validate(S, _generate_safe_fallback(S))

C3_Witness ==
    /\ dispatch.pc = "returned"
    /\ dispatch.output_schema = "RiddlePayload"
    /\ dispatch.max_retries = 2
    /\ Len(dispatch.outcomes) = 3
    /\ \A i \in 1..3 : IsInvalidReturn(dispatch, dispatch.outcomes[i])
    /\ dispatch.result = _generate_safe_fallback("RiddlePayload")
    /\ Len(dispatch.result.v["hints"].v) = 3

\* C4 (as claimed): every chunk dispatch_streaming_with_schema yields
\* validates against the output schema.
C4_YieldedChunksValid ==
    \A i \in DOMAIN stream.yielded :
        validate(stream.output_schema, stream.yielded[i])

\* C10: with max_retries = r the dispatch terminates, calls the agent at
\* most r+1 times, stops at the first schema-valid output and returns it,
\* and returns the safe fallback when all r+1 outputs violate the schema.
C10_BoundedRetries ==
    /\ [](Len(dispatch.calls) <= dispatch.max_retries + 1)
    /\ [](\A i \in DOMAIN dispatch.outcomes :
             IsValidReturn(dispatch, dispatch.outcomes[i])
             => /\ i = Len(dispatch.outcomes)
                /\ dispatch.pc = "returned"
                /\ dispatch.result = dispatch.outcomes[i].value)
    /\ []((/\ Len(dispatch.outcomes) = dispatch.max_retries + 1
           /\ \A i \in DOMAIN dispatch.outcomes :
                 IsInvalidReturn(dispatch, dispatch.outcomes[i]))
          => /\ dispatch.pc = "returned"
             /\ dispatch.result = _generate_safe_fallback(dispatch.output_schema))
    /\ (dispatch.pc = "calling" ~> dispatch.pc \in {"returned", "raised"})

C10_Witness ==
    /\ dispatch.pc = "returned"
    /\ dispatch.max_retries = 2
    /\ Len(dispatch.calls) = 3
    /\ IsInvalidReturn(dispatch, dispatch.outcomes[1])
    /\ dispatch.outcomes[2].kind = "raise"
    /\ IsValidReturn(dispatch, dispatch.outcomes[3])

\* C11: the first invocation of the agent receives the input without a
\* _correction field; every invocation that follows a schema-invalid output
\* receives the input augmented with a _correction field carrying that
\* output's errors; the caller's own input dict is never modified.
C11_CorrectionOnRetry ==
    LET d == dispatch
        passed == IF d.pc = "calling" THEN Append(d.calls, d.input_data)
                  ELSE d.calls
    IN  /\ passed # <<>> =>
              /\ "_correction" \notin DOMAIN passed[1].v
              /\ d.caller_data = passed[1]
        /\ \A i \in DOMAIN passed :
              (i > 1 /\ IsInvalidReturn(d, d.outcomes[i - 1]))
              => passed[i] =
                    WithField(passed[1], "_correction",
                              Correction(validate_errors(d.output_schema,
                                                         d.outcomes[i - 1].value)))

\* two invalid outputs with different errors, each followed by a call
C11_Witness ==
    /\ Len(dispatch.calls) = 3
    /\ IsInvalidReturn(dispatch, dispatch.outcomes[1])
    /\ IsInvalidReturn(dispatch, dispatch.outcomes[2])
    /\ dispatch.outcomes[1] # dispatch.outcomes[2]
    /\ dispatch.calls[2] # dispatch.calls[3]
    /\ "_correction" \in DOMAIN dispatch.calls[3].v

\* C12: when the input payload does not validate against the input schema,
\* create_a2a_task, dispatch_with_schema_enforcement and
\* dispatch_streaming_with_schema fail with SchemaViolation: the agent
\* function is never invoked, no task is created, no fallback is returned.
C12_InvalidInputRejected ==
    /\ (a2a_task.pc # "idle" /\ ~validate(a2a_task.task_type, a2a_task.payload))
       => /\ a2a_task.pc = "raised"
          /\ a2a_task.error = "SchemaViolationError"
          /\ a2a_task.task = Null
    /\ (dispatch.pc # "idle"
        /\ ~validate(dispatch.input_schema, dispatch.caller_data))
       => /\ dispatch.pc = "raised"
          /\ dispatch.error = "SchemaViolationError"
          /\ dispatch.calls = <<>>
          /\ dispatch.result = Null
    /\ (stream.pc # "idle" /\ ~validate(stream.input_schema, stream.input_data))
       => /\ stream.pc = "raised"
          /\ stream.error = "SchemaViolationError"
          /\ stream.received = <<>>
          /\ stream.yielded = <<>>

\* each of the three has been called with an input that does not validate
C12_Witness ==
    /\ a2a_task.pc = "raised"
    /\ ~validate(a2a_task.task_type, a2a_task.payload)
    /\ dispatch.pc = "raised"
    /\ ~validate(dispatch.input_schema, dispatch.caller_data)
    /\ stream.pc = "raised"
    /\ ~validate(stream.input_schema, stream.input_data)

(***************************************************************************)
(* Connection properties (SpecGateway, SpecInterrupt, SpecTools)           *)
(***************************************************************************)
\* C1: on one connection every message written to the client carries a
\* sequence number strictly greater than that of every message written
\* before it, however the send loop and the receive loop interleave.
C1_SeqStrictlyIncreasing ==
    \A i, j \in DOMAIN conn.wire :
        i < j => conn.wire[i].seq < conn.wire[j].seq

\* a pong written by the receive loop between two messages of the send loop
C1_Witness ==
    /\ hist.keepalives = 0
    /\ \E i, j, k \in DOMAIN conn.wire :
          /\ i < j /\ j < k
          /\ conn.wire[i].type = "audio_chunk"
          /\ conn.wire[j].type = "pong"
          /\ conn.wire[k].type \in {"audio_chunk", "error"}

(***************************************************************************)
(* Streaming controller properties (SpecController)                        *)
(***************************************************************************)
\* what the controller has put on the output queue so far, in order: what
\* the send loop has written after session_created, then what is queued
Emitted ==
    Plain(SubSeq(conn.wire, 2, Len(conn.wire))) \o Plain(output_queue)

\* the text of each finished turn of a message sequence: the data of the
\* text_chunk messages up to each turn_end, concatenated
RECURSIVE TurnTexts(_, _)
TurnTexts(msgs, acc) ==
    IF msgs = <<>> THEN <<>>
    ELSE IF Head(msgs).type = "turn_end"
    THEN <<acc>> \o TurnTexts(Tail(msgs), <<>>)
    ELSE IF Head(msgs).type = "text_chunk"
    THEN TurnTexts(Tail(msgs), acc \o Head(msgs).data)
    ELSE TurnTexts(Tail(msgs), acc)

\* C13 (as claimed): for every sequence of send_text_chunk calls followed
\* by send_turn_end, the concatenation of the data of the text_chunk
\* messages emitted for that turn equals the concatenation of the turn's
\* text inputs.
C13_TurnTextPreserved ==
    LET T == TurnTexts(Emitted, <<>>)
    IN  \A k \in DOMAIN T : T[k] = hist.inputs[k]

C15_TurnEndAfterFlush ==
    hist.call.kind = "turn_end" =>
        /\ hist.call.msgs =
              (IF hist.call.before = <<>> THEN <<>>
               ELSE <<[type |-> "text_chunk", data |-> hist.call.before]>>)
              \o <<[type |-> "turn_end", data |-> <<>>]>>
        /\ listener.pc = "waiting" => orch._text_buffer = <<>>

\* C16 (as claimed): under backpressure a turn_end or error message is
\* never dropped; only audio and text chunks are dropped after the bounded
\* wait.
C16_FramingNeverDropped ==
    hist.dropped \cap {"turn_end", "error"} = {}

\* C17 (as claimed): the output queue never holds more than its
\* high-watermark, and no producer that waits on the full queue waits for
\* ever when the send loop has stopped draining: the streaming controller,
\* the listener's interrupted path and the receive loop's error path all
\* get on after the bounded wait.
C17_NoProducerBlocksForever ==
    /\ [](Len(output_queue) <= STREAM_BUFFER_HIGH_WATERMARK)
    /\ (listener.pc = "blocked") ~> (listener.pc # "blocked")
    /\ (receiver.pc = "blocked") ~> (receiver.pc # "blocked")

\* C18: from whichever state handle_interrupt is invoked, when it returns
\* the orchestrator state is listening, no tool task is left running (every
\* active one has been cancelled), the active-task list is empty, and
\* current_turn_id is a fresh identifier, different from the one before.
C18_InterruptPostState ==
    hist.last \in {"client_interrupt", "model_interrupt"} =>
        /\ orch.state = "listening"
        /\ orch._active_tasks = <<>>
        /\ \A i \in DOMAIN tasks : tasks[i].pc \notin {"created", "dispatching"}
        /\ orch.current_turn_id # 0
        /\ orch.current_turn_id # hist.before.current_turn_id

\* a second interrupt, with a tool task cancelled while it was dispatching
C18_Witness ==
    /\ hist.last \in {"client_interrupt", "model_interrupt"}
    /\ hist.before.state = "processing"
    /\ hist.before.current_turn_id # 0
    /\ \E i \in DOMAIN tasks :
          tasks[i].pc = "cancelled" /\ tasks[i].path # ""

\* C2 (as claimed): when handle_interrupt has returned the output queue
\* holds nothing from before the interrupt, and no text or audio chunk
\* written to the client was produced before an interrupt that was handled
\* before the write.
C2_NoChunkFromBeforeInterrupt ==
    /\ hist.last \in {"client_interrupt", "model_interrupt"}
       => \A k \in DOMAIN output_queue : output_queue[k].type = "interrupted"
    /\ \A i \in DOMAIN conn.wire :
          conn.wire[i].type \in {"text_chunk", "audio_chunk"}
          => conn.wire[i].born = conn.wire[i].sent

Answers(i) == {k \in DOMAIN responses : responses[k].id = i}

\* C5 (as claimed): every function call of a session that is neither
\* interrupted nor shut down (nor has lost its peer) is eventually answered
\* by send_function_response with its id and name, and no call is answered
\* more than once.
C5_EveryCallAnswered ==
    /\ [](\A i \in 1..MaxCalls :
             /\ Cardinality(Answers(i)) <= 1
             /\ \A k \in Answers(i) : responses[k].name = tasks[i].name)
    /\ \A i \in 1..MaxCalls :
          (tasks[i].pc = "created")
             ~> \/ Answers(i) # {}
                \/ tasks[i].pc = "cancelled"
                \/ hist.interrupts > 0
                \/ ~orch._is_connected
                \/ conn.broken

(***************************************************************************)
(* Interrupt of a streaming story (SpecInterruptFair)                      *)
(***************************************************************************)
\* C19 (as claimed): whenever the client sends interrupt while a story is
\* streaming, an interrupted message is written to that client afterwards
\* (the text chunks the claim rules out after that message are those of
\* C2_NoChunkFromBeforeInterrupt).
C19_InterruptedAfterClientInterrupt ==
    \A n \in 1..(MaxEvents + MaxClientMessages) :
        (/\ hist.last = "client_interrupt"
         /\ hist.interrupts = n
         /\ hist.before.state = "streaming")
        ~> \/ \E i \in DOMAIN conn.wire :
                  /\ conn.wire[i].type = "interrupted"
                  /\ conn.wire[i].sent >= n
           \/ hist.events = MaxEvents   \* behaviours cut short by the bound

ImageRunning == {"spawned", "executing", "blocked"}

ImageAt(i, k) ==
    IF k \in DOMAIN tasks[i].images THEN tasks[i].images[k] ELSE "none"

\* C21: an interrupt does not cancel detached image tasks.  handle_interrupt
\* leaves every image task where it stands, an image task that is running
\* runs on to its end, and the step in which it ends with a url puts its
\* image_ready message into the output queue, after an interrupt as before.
C21_InterruptSparesImageTasks ==
    /\ [][hist'.last \in {"client_interrupt", "model_interrupt"}
            => \A i \in 1..MaxCalls : tasks'[i].images = tasks[i].images]_vars
    /\ \A i \in 1..MaxCalls : \A k \in 1..MaxAgentChunks :
          (ImageAt(i, k) \in ImageRunning)
          ~> (ImageAt(i, k) \in {"done", "no_url", "dropped", "failed",
                                 "skipped"})
    /\ [][\A i \in 1..MaxCalls : \A k \in DOMAIN tasks[i].images :
            (tasks[i].images[k] \in ImageRunning /\ tasks'[i].images[k] = "done")
            => output_queue' =
                  Append(output_queue,
                         ServerMessage("image_ready", <<>>, hist.interrupts))]_vars

\* a call was cancelled by an interrupt, and the image_ready message of its
\* image task was enqueued after that interrupt
C21_Witness ==
    \E i \in 1..MaxCalls :
        /\ tasks[i].pc = "cancelled"
        /\ \E k \in DOMAIN tasks[i].images : tasks[i].images[k] = "done"
        /\ \A j \in 1..MaxCalls \ {i} : tasks[j].images = <<>>
        /\ \E q \in DOMAIN output_queue :
              /\ output_queue[q].type = "image_ready"
              /\ output_queue[q].born >= 1

(***************************************************************************)
(* Error event of the live model (SpecConversation)                        *)
(***************************************************************************)
\* C22 (as claimed): when the live-model adapter has surfaced an error event
\* the orchestrator state is idle once the error message is enqueued, and
\* the session remains usable: after later client input of a connected
\* session the adapter still listens for the model's events.
C22_UsableAfterError ==
    /\ (hist.last = "error" /\ listener.pc = "waiting")
       => /\ orch.state = "idle"
          /\ output_queue # <<>>
          /\ output_queue[Len(output_queue)].type = "error"
    /\ (hist.last \in {"text_input", "audio_input"} /\ orch._is_connected)
       => orch._listener_task = "running"

(***************************************************************************)
(* Writers of the orchestrator's state (SpecConversation)                  *)
(***************************************************************************)
\* C25 (as claimed): the orchestrator's state, current_turn_id and
\* active-task list are written by a single task: while a transition of the
\* model-event listener is in progress (it waits in an enqueue, with a
\* write still to come) no step of another task writes them.
C25_SingleWriter ==
    [][(listener.pc = "blocked" /\ listener' = listener)
         => /\ orch'.state = orch.state
            /\ orch'.current_turn_id = orch.current_turn_id
            /\ orch'._active_tasks = orch._active_tasks]_vars

(***************************************************************************)
(* Connection teardown (SpecTeardown)                                      *)
(***************************************************************************)
\* C23 (as claimed): after connection teardown has completed no task of the
\* session is still running (send loop, model-event listener, tool tasks,
\* detached image tasks), and nothing is enqueued on the session's output
\* queue afterwards.
C23_NothingRunsAfterTeardown ==
    /\ [](~conn.connected
            => /\ sender = "stopped"
               /\ listener.pc = "stopped"
               /\ \A i \in 1..MaxCalls :
                     /\ tasks[i].pc \notin {"created", "dispatching"}
                     /\ \A k \in 1..MaxAgentChunks :
                           ImageAt(i, k) \notin ImageRunning)
    /\ [][~conn.connected
            => Len(output_queue') <= Len(output_queue)]_vars

(***************************************************************************)
(* Sequence numbers seen by the client (SpecInterrupt)                     *)
(***************************************************************************)
\* C27: the first message written to the client is session_created with
\* sequence 1, and the numbers of the messages written are 1, 2, 3, ...
\* without holes: a message dropped under backpressure or discarded by an
\* interrupt's drain of the queue consumes no number.
C27_SeqWithoutHoles ==
    /\ conn.wire[1].type = "session_created"
    /\ \A i \in DOMAIN conn.wire : conn.wire[i].seq = i

\* a message was dropped under backpressure, an interrupt has drained the
\* queue, and messages were written after both
C27_Witness ==
    /\ hist.dropped # {}
    /\ hist.interrupts > 0
    /\ \E i \in DOMAIN conn.wire :
          conn.wire[i].sent > 0 /\ conn.wire[i].type # "interrupted"

(***************************************************************************)
(* Malformed client messages (SpecReceive)                                 *)
(***************************************************************************)
ErrorsOf(msgs) == Cardinality({i \in DOMAIN msgs : msgs[i].type = "error"})

C29_WritesNeverWait ==
    memory.caller = "idle"

\* C30: after n save_turn calls the turns in memory are exactly the last
\* min(n, 20) turns saved, in the order they were saved, never more than 20.
C30_LastTwentyTurns ==
    LET n == Len(memory.log)
        k == IF n < MAX_MEMORY_TURNS THEN n ELSE MAX_MEMORY_TURNS
    IN  /\ Len(memory._turns) <= MAX_MEMORY_TURNS
        /\ memory._turns = SubSeq(memory.log, n - k + 1, n)

\* more turns than fit were saved and the oldest ones are gone
C30_Witness ==
    /\ Len(memory.log) = MAX_MEMORY_TURNS + 2
    /\ Len(memory._turns) = MAX_MEMORY_TURNS
    /\ memory._turns[1] = 3

(***************************************************************************)
(* Connection table properties (SpecEndpoint)                              *)
(***************************************************************************)
\* C24: a connection whose cleanup has ended is not in the connection table,
\* whichever teardown steps failed and whether or not it was ever
\* registered; no cleanup ends in an exception; a cleanup that has started
\* ends (every await of it taken to return); and a cleanup run again on a
\* connection leaves the table as it is.
C24_ConnectionRemoved ==
    /\ [](\A c \in 2..MaxConnections :
            /\ endpoint[c].pc = "closed" => c \notin active_connections
            /\ endpoint[c].pc # "raised")
    /\ \A c \in 2..MaxConnections :
          (endpoint[c].pc = "cleanup") ~> (endpoint[c].pc = "closed")
    /\ [][\A c \in 2..MaxConnections :
            (endpoint[c].cleanups > 0 /\ endpoint'[c] # endpoint[c])
                => active_connections' = active_connections]_vars

\* one connection was registered, had every teardown step fail and was
\* cleaned up twice; another failed in setup and was cleaned up
C24_Witness ==
    \E c, d \in 2..MaxConnections :
        /\ endpoint[c].pc = "closed" /\ endpoint[c].session
        /\ endpoint[c].failed = CleanupSteps
        /\ endpoint[c].cleanups = 1
        /\ endpoint[d].pc = "closed" /\ ~endpoint[d].session
        /\ active_connections = {1}

(***************************************************************************)
(* Cultural grounding properties (SpecGrounding)                           *)
(***************************************************************************)
\* C26: on a story stream, once the validator has failed 5 times the
\* cultural breaker is open; a chunk that finds it open within the reset
\* timeout is passed through with cultural_confidence 0.5 and the validator
\* is not called; a chunk that arrives after the reset timeout is sent to
\* the validator as a probe; and after a probe that succeeds the breaker is
\* closed with failure_count 0.
C26_CulturalBreakerRecovers ==
    LET l == grounding.last
    IN  /\ (ValidationFailed(l.outcome) /\ grounding.failures >= 5)
              => breaker.state = "open"
        /\ (l.probe /\ breaker.state = "open" /\ l.outcome = "none")
              => /\ ~l.called
                 /\ l.cultural_confidence = PassThroughConfidence
        /\ (l.probe /\ breaker.state # "open") => l.called
        /\ (l.probe /\ l.outcome = "ok")
              => /\ breaker.state = "closed"
                 /\ breaker.failure_count = 0

(***************************************************************************)
(* Circuit breaker: frame of is_open and the count invariant (SpecBreaker) *)
(***************************************************************************)
\* C38: is_open() never changes failure_count, success_count or
\* last_failure_time; the only change of state it makes is open ->
\* half_open, and only when more than reset_timeout has passed since the
\* last failure; called in closed or half_open it changes nothing.
C38_IsOpenObserver ==
    cb_op = "is_open"
        => /\ breaker.failure_count = cb_prev.failure_count
           /\ breaker.success_count = cb_prev.success_count
           /\ breaker.last_failure_time = cb_prev.last_failure_time
           /\ breaker.max_failures = cb_prev.max_failures
           /\ breaker.reset_timeout = cb_prev.reset_timeout
           /\ \/ breaker.state = cb_prev.state
              \/ /\ cb_prev.state = "open"
                 /\ breaker.state = "half_open"
                 /\ now - cb_prev.last_failure_time > cb_prev.reset_timeout
           /\ cb_prev.state \in {"closed", "half_open"} => breaker = cb_prev

\* is_open() has just moved an open breaker with failures to half_open
C38_Witness ==
    /\ cb_op = "is_open"
    /\ cb_prev.state = "open"
    /\ breaker.state = "half_open"
    /\ breaker.failure_count > 0
    /\ breaker.last_failure_time > 0

\* C39: whatever calls were made, a closed breaker has failure_count <
\* max_failures and an open or half-open one has failure_count >=
\* max_failures.
C39_CountMatchesState ==
    /\ breaker.max_failures >= 1
    /\ breaker.state = "closed" => breaker.failure_count < breaker.max_failures
    /\ breaker.state \in {"open", "half_open"}
          => breaker.failure_count >= breaker.max_failures

\* a probe has failed: the breaker is open again, above the threshold, after
\* an earlier success
C39_Witness ==
    /\ breaker.state = "open"
    /\ breaker.failure_count > breaker.max_failures
    /\ breaker.success_count > 0

(***************************************************************************)
(* dispatch_with_schema_enforcement: exceptions of the agent (SpecDispatch)*)
(***************************************************************************)
IsAgentError(o) == o.kind = "raise" /\ o.value # Str("SchemaViolationError")

\* C40: an exception of the agent function other than SchemaViolationError
\* never leaves dispatch_with_schema_enforcement: the attempt that raised
\* counts as one of the max_retries + 1 attempts, the attempt after it gets
\* the input the raising attempt got (no _correction is added for it), and
\* when the last attempt raises the safe fallback is returned.
C40_AgentErrorsContained ==
    LET d == dispatch
        passed == IF d.pc = "calling" THEN Append(d.calls, d.input_data)
                  ELSE d.calls
    IN  /\ d.pc = "raised"
              => /\ d.error = "SchemaViolationError"
                 /\ d.outcomes # <<>>
                       => ~IsAgentError(d.outcomes[Len(d.outcomes)])
        /\ Len(d.outcomes) <= d.max_retries + 1
        /\ \A i \in DOMAIN d.outcomes :
              IsAgentError(d.outcomes[i])
              => /\ i < Len(passed) => passed[i + 1] = passed[i]
                 /\ i = d.max_retries + 1
                       => /\ d.pc = "returned"
                          /\ d.result = _generate_safe_fallback(d.output_schema)
                 /\ i < d.max_retries + 1 => Len(passed) > i

\* an invalid output, then two attempts that raise: the third attempt got
\* the second one's input and the call ended with the fallback
C40_Witness ==
    /\ dispatch.pc = "returned"
    /\ dispatch.max_retries = 2
    /\ Len(dispatch.outcomes) = 3
    /\ dispatch.outcomes[1].kind = "return"
    /\ IsAgentError(dispatch.outcomes[2])
    /\ IsAgentError(dispatch.outcomes[3])
    /\ "_correction" \in DOMAIN dispatch.calls[3].v
    /\ dispatch.result = _generate_safe_fallback(dispatch.output_schema)

\* C36: _dispatch_with_grounding yields each chunk of the agent stream
\* exactly once and in arrival order, whatever the validator does; a chunk
\* whose validation timed out, raised or was skipped because the breaker
\* was open is yielded with cultural_confidence 0.5, and every timeout or
\* exception records one failure on the cultural breaker.
C36_OneChunkOutPerChunkIn ==
    LET l == grounding.last
    IN  /\ grounding.yielded = [k \in 1..grounding.chunks |-> k]
        /\ (grounding.chunks > 0 /\ l.outcome # "ok")
              => l.cultural_confidence = PassThroughConfidence
        /\ grounding.chunks > 0 => (l.outcome = "none" <=> ~l.called)
        /\ breaker.failure_count = grounding.failures

\* a stream of which five validations timed out or raised and the last
\* chunk was kept from the validator by the open breaker
C36_Witness ==
    /\ grounding.chunks = MaxGroundedChunks
    /\ grounding.failures = 5
    /\ breaker.state = "open"
    /\ ~grounding.last.called
    /\ grounding.last.cultural_confidence = PassThroughConfidence
    /\ Len(grounding.yielded) = MaxGroundedChunks

\* C37: the summarization save_turn schedules when it evicts turns works on
\* the oldest turns as they were before the trim: once the scheduled
\* summarizations have run, every turn evicted from memory has been part
\* of a summarized window.
C37_EvictedTurnsSummarized ==
    memory.summarize_tasks = 0
        => \A i \in 1..(Len(memory.log) - Len(memory._turns)) :
              memory.log[i] \in memory.summarized

(***************************************************************************)
(* Orchestrator state machine (SpecConversation)                           *)
(***************************************************************************)
\* C32: the orchestrator state moves only along the listed edges: a step
\* into processing starts in idle or listening, a step into streaming
\* starts in processing, and an audio frame takes idle and listening to
\* listening and leaves every other state as it is.
C32_StateEdges ==
    [][/\ (orch'.state = "processing" /\ orch.state # "processing")
             => orch.state \in {"idle", "listening"}
       /\ (orch'.state = "streaming" /\ orch.state # "streaming")
             => orch.state = "processing"
       /\ (hist'.last = "audio_input"
            /\ hist'.client_messages = hist.client_messages + 1)
             => orch'.state = IF orch.state \in {"idle", "listening"}
                              THEN "listening" ELSE orch.state]_vars

(***************************************************************************)
(* Tool calls: the dispatch path (SpecTools)                               *)
(***************************************************************************)
\* the args satisfy the declaration of the function
AsDeclared(name, args) ==
    /\ name \in DOMAIN TOOL_DECLARATIONS
    /\ iter_errors(TOOL_DECLARATIONS[name], args, "") = {}

\* C33: a call of tell_story, pose_riddle or generate_scene_image whose
\* arguments satisfy the declaration of the function takes the A2A path:
\* the arguments with the session_context added validate against the
\* mapped input schema.
C33_DeclaredCallsTakeA2A ==
    \A i \in DOMAIN tasks :
        (/\ tasks[i].path # ""
         /\ tasks[i].name \in {"tell_story", "pose_riddle",
                                "generate_scene_image"}
         /\ AsDeclared(tasks[i].name, tasks[i].args))
        => tasks[i].path = "a2a"

\* C34: every chunk with a visual_moment that a tool call's task consumes
\* starts one image task, on the A2A path, on the fallback path and on the
\* legacy path alike: a story or riddle chunk with a visual moment, and the
\* acknowledgement chunk of an image request.
C34_VisualMomentSpawnsImage ==
    [][\A i \in DOMAIN tasks :
          (\/ /\ hist'.last = "visual_chunk"
              /\ tasks'[i].result # tasks[i].result
           \/ /\ tasks[i].pc = "created" /\ tasks'[i].pc = "done"
              /\ tasks[i].name = "generate_scene_image")
          => Len(tasks'[i].images) = Len(tasks[i].images) + 1]_vars

(***************************************************************************)
(* AgentDispatcher.dispatch: failures of the story agent (SpecAgents)      *)
(***************************************************************************)
FallbackTexts ==
    {"I need a moment to gather my thoughts...",
     "Let me try a different approach..."}

\* the calls whose agent timed out or raised
FailedCalls ==
    {i \in DOMAIN tasks :
        /\ tasks[i].pc = "done"
        /\ tasks[i].result # <<>>
        /\ tasks[i].result[Len(tasks[i].result)] \in FallbackTexts}

\* C35: when the story agent times out or raises, dispatch ends the stream
\* with a fallback text that goes back to the model as the function
\* response, and one failure is recorded on the story breaker for it, so
\* that max_failures failed calls leave the breaker open.
C35_AgentFailureRecorded ==
    /\ \A i \in FailedCalls :
          \E k \in DOMAIN responses :
             /\ responses[k].id = i
             /\ responses[k].result = tasks[i].result
    /\ breaker.failure_count = Cardinality(FailedCalls)
    /\ Cardinality(FailedCalls) >= breaker.max_failures
          => breaker.state = "open"

(***************************************************************************)
(* Live-model adapter: close (SpecAdapter)                                 *)
(***************************************************************************)
\* C31: close() is idempotent and closed is absorbing: after a close() the
\* adapter stays not connected, a further close() changes nothing but the
\* count of calls, no send_* reaches the live API, receive_events() yields
\* no event any more, and its iteration ends.
C31_ClosedIsAbsorbing ==
    /\ [](adapter.closes > 0 => ~adapter._is_connected)
    /\ [][adapter.closes > 0
            => /\ adapter'.sent = adapter.sent
               /\ adapter'._listen = adapter._listen
               /\ adapter'.yielded = adapter.yielded]_vars
    /\ (adapter.closes > 0) ~> (adapter.consumer = "stopped")

====
